---- MODULE Spec2Model ----
(***************************************************************************)
(* Model of the document-processing core of alphalens                      *)
(* (src/document_processor.py): text normalisation, table reconstruction,  *)
(* numeric extraction, metric extraction and the schema mapper.            *)
(*                                                                         *)
(* Strings are sequences of one-character strings, so that the regular    *)
(* expressions, replacements and splits of the source are computed         *)
(* character by character.  The non-breaking space U+00A0 is the character *)
(* NBSP.                                                                   *)
(***************************************************************************)
EXTENDS Integers, Sequences, FiniteSets, TLC

VARIABLES
    pc,                 \* position of the running call
    text,               \* normalize_chunk_text: argument
    normalized,         \* normalize_chunk_text: result of the first call
    renormalized,       \* normalize_chunk_text: result of the call on that result
    line,               \* extract_number_from_line: argument
    number,             \* extract_number_from_line: returned value
    raw_text,           \* parse_table_rows: argument, the markup
    normalized_text,    \* parse_table_rows: argument, the text of the markup
    header,             \* parse_table_rows: local, then the header returned
    rows,               \* parse_table_rows: local, then the rows returned
    ade_response,       \* map_to_financial_schema: argument, the parse response
    pdf_text,           \* map_to_financial_schema: argument, the text of the document
    financial_data,     \* map_to_financial_schema: the record under construction
    processed_table_ids,\* map_to_financial_schema: local, the table ids seen
    chunk_index,        \* map_to_financial_schema: position of the running chunk loop
    result,             \* map_to_financial_schema: the record returned
    document,           \* process_document_background: the row of the document in the database
    processed_data_path \* process_document_background: local, the path of the uploaded data

normVars == <<text, normalized, renormalized>>

numVars == <<line, number>>

parseVars == <<raw_text, normalized_text, header, rows>>

mapVars == <<ade_response, pdf_text, financial_data, processed_table_ids, chunk_index, result>>

taskVars == <<document, processed_data_path>>

vars == <<pc, normVars, numVars, parseVars, mapVars, taskVars>>

(***************************************************************************)
(* Character and string primitives (Python str methods)                    *)
(***************************************************************************)
NBSP == "NBSP"

\* the em space U+2003
EMSP == "EMSP"

UpperToLower ==
    ("A" :> "a") @@ ("B" :> "b") @@ ("C" :> "c") @@ ("D" :> "d") @@ ("E" :> "e") @@
    ("F" :> "f") @@ ("G" :> "g") @@ ("H" :> "h") @@ ("I" :> "i") @@ ("J" :> "j") @@
    ("K" :> "k") @@ ("L" :> "l") @@ ("M" :> "m") @@ ("N" :> "n") @@ ("O" :> "o") @@
    ("P" :> "p") @@ ("Q" :> "q") @@ ("R" :> "r") @@ ("S" :> "s") @@ ("T" :> "t") @@
    ("U" :> "u") @@ ("V" :> "v") @@ ("W" :> "w") @@ ("X" :> "x") @@ ("Y" :> "y") @@
    ("Z" :> "z")

LowerChar(c) == IF c \in DOMAIN UpperToLower THEN UpperToLower[c] ELSE c

\* str.lower()
Lower(s) == [i \in 1..Len(s) |-> LowerChar(s[i])]

Digits == {"0", "1", "2", "3", "4", "5", "6", "7", "8", "9"}

\* str.isdigit() of one character
IsDigit(c) == c \in Digits

\* the characters str.strip(), str.split() and the regex class \s treat as white space
Whitespace == {" ", "\t", "\n", "\r", "\f", NBSP, EMSP}

IsSpace(c) == c \in Whitespace

\* k occurs in s at position i
StartsAt(s, k, i) ==
    /\ i >= 1
    /\ i + Len(k) - 1 <= Len(s)
    /\ \A j \in 1..Len(k) : s[i + j - 1] = k[j]

\* Python `k in s`
Contains(s, k) == \E i \in 1..(Len(s) - Len(k) + 1) : StartsAt(s, k, i)

\* the scans below look at Block characters per step of their recursion
Block == 16

Min(a, b) == IF a < b THEN a ELSE b

Max(a, b) == IF a > b THEN a ELSE b

\* first index >= i at which s holds a character of set cs, or 0
RECURSIVE FirstIn(_, _, _)
FirstIn(s, i, cs) ==
    IF i > Len(s) THEN 0
    ELSE IF \E j \in i..Min(i + Block - 1, Len(s)) : s[j] \in cs
         THEN CHOOSE j \in i..Min(i + Block - 1, Len(s)) :
                  s[j] \in cs /\ \A k \in i..(j - 1) : s[k] \notin cs
         ELSE FirstIn(s, i + Block, cs)

\* first index >= i at which s holds a character outside cs, or Len(s) + 1
RECURSIVE FirstNotIn(_, _, _)
FirstNotIn(s, i, cs) ==
    IF i > Len(s) THEN Len(s) + 1
    ELSE IF \E j \in i..Min(i + Block - 1, Len(s)) : s[j] \notin cs
         THEN CHOOSE j \in i..Min(i + Block - 1, Len(s)) :
                  s[j] \notin cs /\ \A k \in i..(j - 1) : s[k] \in cs
         ELSE FirstNotIn(s, i + Block, cs)

\* last index <= i at which s holds a character of set cs, or 0
RECURSIVE LastIn(_, _, _)
LastIn(s, i, cs) ==
    IF i < 1 THEN 0
    ELSE IF \E j \in Max(i - Block + 1, 1)..i : s[j] \in cs
         THEN CHOOSE j \in Max(i - Block + 1, 1)..i :
                  s[j] \in cs /\ \A k \in (j + 1)..i : s[k] \notin cs
         ELSE LastIn(s, i - Block, cs)

\* last index <= i at which s holds a character outside cs, or 0
RECURSIVE LastNotIn(_, _, _)
LastNotIn(s, i, cs) ==
    IF i < 1 THEN 0
    ELSE IF \E j \in Max(i - Block + 1, 1)..i : s[j] \notin cs
         THEN CHOOSE j \in Max(i - Block + 1, 1)..i :
                  s[j] \notin cs /\ \A k \in (j + 1)..i : s[k] \in cs
         ELSE LastNotIn(s, i - Block, cs)

\* s[a..b] with the bounds cut to the string
Slice(s, a, b) ==
    LET lo == IF a < 1 THEN 1 ELSE a
        hi == IF b > Len(s) THEN Len(s) ELSE b
    IN  IF lo > hi THEN <<>> ELSE SubSeq(s, lo, hi)

\* s.strip(chars): drop the characters of cs at both ends
StripChars(s, cs) == Slice(s, FirstNotIn(s, 1, cs), LastNotIn(s, Len(s), cs))

\* str.strip(): drop the white space at both ends
Strip(s) == StripChars(s, Whitespace)

\* the concatenation of parts[lo], ..., parts[hi]
RECURSIVE Flatten(_, _, _)
Flatten(parts, lo, hi) ==
    IF lo > hi THEN <<>>
    ELSE IF lo = hi THEN parts[lo]
    ELSE Flatten(parts, lo, (lo + hi) \div 2) \o Flatten(parts, (lo + hi) \div 2 + 1, hi)

\* str.replace(a, b) for a single character a and a string b
ReplaceChar(s, a, b) ==
    Flatten([i \in 1..Len(s) |-> IF s[i] = a THEN b ELSE <<s[i]>>], 1, Len(s))

\* str.split(): the maximal runs of characters that are not white space, from index i on
RECURSIVE SplitWhitespace(_, _)
SplitWhitespace(s, i) ==
    LET b == FirstNotIn(s, i, Whitespace)
    IN  IF b > Len(s) THEN <<>>
        ELSE LET f == FirstIn(s, b, Whitespace)
                 e == IF f = 0 THEN Len(s) + 1 ELSE f
             IN  <<SubSeq(s, b, e - 1)>> \o SplitWhitespace(s, e)

\* str.split(sep) for a single character sep, from index i on
RECURSIVE SplitOn(_, _, _)
SplitOn(s, sep, i) ==
    LET f == FirstIn(s, i, {sep})
    IN  IF f = 0 THEN <<SubSeq(s, i, Len(s))>>
        ELSE <<SubSeq(s, i, f - 1)>> \o SplitOn(s, sep, f + 1)

\* the regex class \w
WordChars ==
    Digits \cup {"_"} \cup DOMAIN UpperToLower \cup {UpperToLower[c] : c \in DOMAIN UpperToLower}

IsWordChar(s, i) == i >= 1 /\ i <= Len(s) /\ s[i] \in WordChars

\* the regex assertion \b between s[i-1] and s[i]
WordBoundary(s, i) == IsWordChar(s, i - 1) # IsWordChar(s, i)

\* \bk\b matches in s at position i (k made of word characters)
WordAt(s, k, i) ==
    StartsAt(s, k, i) /\ WordBoundary(s, i) /\ WordBoundary(s, i + Len(k))

\* re.search(r"\bk\b", s)
SearchWord(s, k) == \E i \in 1..Len(s) : WordAt(s, k, i)

\* Optional[...] values: None is the empty sequence, a value v is <<v>>
None == <<>>

Some(v) == <<v>>

DigitValue ==
    ("0" :> 0) @@ ("1" :> 1) @@ ("2" :> 2) @@ ("3" :> 3) @@ ("4" :> 4) @@
    ("5" :> 5) @@ ("6" :> 6) @@ ("7" :> 7) @@ ("8" :> 8) @@ ("9" :> 9)

\* the value of a string of decimal digits
RECURSIVE DecimalValue(_)
DecimalValue(ds) ==
    IF ds = <<>> THEN 0
    ELSE 10 * DecimalValue(SubSeq(ds, 1, Len(ds) - 1)) + DigitValue[ds[Len(ds)]]

\* float(word) for the words [+-]?[0-9]+ ; None stands for ValueError
\* (words with a decimal point, an exponent or an underscore are not generated)
ParseFloat(word) ==
    LET signed == word # <<>> /\ word[1] \in {"-", "+"}
        ds     == IF signed THEN Tail(word) ELSE word
    IN  IF ds # <<>> /\ \A i \in 1..Len(ds) : IsDigit(ds[i])
        THEN Some(IF signed /\ word[1] = "-" THEN 0 - DecimalValue(ds) ELSE DecimalValue(ds))
        ELSE None

Abs(v) == IF v < 0 THEN 0 - v ELSE v

\* int(word) for the words [+-]?[0-9]+ with surrounding white space; None stands for ValueError
ParseInt(word) == ParseFloat(Strip(word))

DigitChars == <<"0", "1", "2", "3", "4", "5", "6", "7", "8", "9">>

\* str(n) for n >= 0
RECURSIVE IntToStr(_)
IntToStr(n) ==
    IF n < 10 THEN <<DigitChars[n + 1]>>
    ELSE IntToStr(n \div 10) \o <<DigitChars[(n % 10) + 1]>>

\* A Python dict is the sequence of its <<key, value>> pairs in insertion order.
DictKeys(d) == [i \in 1..Len(d) |-> d[i][1]]

DictHas(d, k) == \E i \in 1..Len(d) : d[i][1] = k

\* d.get(k, default)
DictGet(d, k, default) ==
    IF DictHas(d, k) THEN d[CHOOSE i \in 1..Len(d) : d[i][1] = k][2] ELSE default

\* d[k] = v
DictPut(d, k, v) ==
    IF DictHas(d, k)
    THEN [i \in 1..Len(d) |-> IF d[i][1] = k THEN <<k, v>> ELSE d[i]]
    ELSE Append(d, <<k, v>>)

\* the elements of a sequence as a set
Range(q) == {q[i] : i \in 1..Len(q)}

(***************************************************************************)
(* normalize_chunk_text                                                    *)
(***************************************************************************)
\* text.replace("\r\n", "\n").replace("\r", "\n")
StandardizeLineEndings(s) ==
    Flatten([i \in 1..Len(s) |->
                IF s[i] = "\r" THEN <<"\n">>
                ELSE IF s[i] = "\n" /\ i > 1 /\ s[i - 1] = "\r" THEN <<>>
                ELSE <<s[i]>>], 1, Len(s))

\* the alternatives of LINE_BREAK_PATTERN: br, /tr, /table, /p
LineBreakTags ==
    { <<"b", "r">>, <<"/", "t", "r">>, <<"/", "t", "a", "b", "l", "e">>, <<"/", "p">> }

\* LINE_BREAK_PATTERN = <\s*(br|/tr|/table|/p)\s*/?> (IGNORECASE) matched at i:
\* the index of the closing ">", or 0 when there is no match at i
LineBreakMatch(s, i) ==
    IF i > Len(s) \/ s[i] # "<" THEN 0
    ELSE LET j == FirstNotIn(s, i + 1, Whitespace)
             low  == Lower(Slice(s, j, j + 5))
             alts == {t \in LineBreakTags : StartsAt(low, t, 1)}
         IN  IF alts = {} THEN 0
             ELSE LET t == CHOOSE a \in alts : TRUE
                      k == FirstNotIn(s, j + Len(t), Whitespace)
                      m == IF k <= Len(s) /\ s[k] = "/" THEN k + 1 ELSE k
                  IN  IF m <= Len(s) /\ s[m] = ">" THEN m ELSE 0

\* what LINE_BREAK_PATTERN.sub("\n", s) puts for the character at index p, a being
\* the last "<" up to p: a match holds no second "<", so matches never overlap
LineBreakPart(s, p, a) ==
    IF a = 0 THEN <<s[p]>>
    ELSE IF a = p THEN (IF LineBreakMatch(s, p) # 0 THEN <<"\n">> ELSE <<"<">>)
    ELSE IF LineBreakMatch(s, a) >= p THEN <<>>
    ELSE <<s[p]>>

\* LINE_BREAK_PATTERN.sub("\n", s)
LineBreakSub(s) ==
    IF FirstIn(s, 1, {"<"}) = 0 THEN s
    ELSE Flatten([p \in 1..Len(s) |-> LineBreakPart(s, p, LastIn(s, p, {"<"}))], 1, Len(s))

\* what HTML_TAG_PATTERN.sub(" ", s) puts for the character at index p, j being the
\* first ">" from p on and i0 the first "<" after the last ">" before p: the
\* match <[^>]+> that ends at j starts at i0, unless they are neighbours
HtmlTagPart(s, p, j, i0) ==
    IF j = 0 \/ i0 = 0 \/ i0 > p \/ j < i0 + 2 THEN <<s[p]>>
    ELSE IF p = i0 THEN <<" ">>
    ELSE <<>>

\* HTML_TAG_PATTERN.sub(" ", s)
HtmlTagSub(s) ==
    IF FirstIn(s, 1, {"<"}) = 0 THEN s
    ELSE Flatten([p \in 1..Len(s) |->
                     HtmlTagPart(s, p, FirstIn(s, p, {">"}),
                                 FirstIn(s, LastIn(s, p - 1, {">"}) + 1, {"<"}))], 1, Len(s))

\* the entries of html.entities.html5 that can be spelled in the model's alphabet
Html5 ==
    (<<"l", "t", ";">> :> "<") @@ (<<"l", "t">> :> "<") @@
    (<<"g", "t", ";">> :> ">") @@ (<<"g", "t">> :> ">") @@
    (<<"a", "m", "p", ";">> :> "&") @@ (<<"a", "m", "p">> :> "&") @@
    (<<"n", "b", "s", "p", ";">> :> NBSP) @@ (<<"n", "b", "s", "p">> :> NBSP)

\* characters that end the name of a character reference: [^\t\n\f <&#;]
CharrefStop == {"\t", "\n", "\f", " ", "<", "&", "#", ";"}

\* the text that replaces the character reference at the "&" of index i, and the
\* index at which the scan goes on
Charref(s, i) ==
    LET stop == FirstIn(s, i + 1, CharrefStop)
        e0   == IF stop = 0 THEN Len(s) ELSE stop - 1
        e1   == IF e0 > i + 32 THEN i + 32 ELSE e0
        last == IF e1 + 1 <= Len(s) /\ s[e1 + 1] = ";" THEN e1 + 1 ELSE e1
        name == SubSeq(s, i + 1, last)
        pre  == {x \in 2..(Len(name) - 1) : SubSeq(name, 1, x) \in DOMAIN Html5}
    IN  IF e1 = i THEN [chars |-> <<"&">>, next |-> i + 1]
        ELSE IF name \in DOMAIN Html5 THEN [chars |-> <<Html5[name]>>, next |-> last + 1]
        ELSE IF pre # {}
             THEN LET x == CHOOSE y \in pre : \A z \in pre : y >= z
                  IN  [chars |-> <<Html5[SubSeq(name, 1, x)]>>, next |-> i + x + 1]
             ELSE [chars |-> <<"&">>, next |-> i + 1]

\* what html.unescape puts for the character at index p, a being the last "&"
\* before p: a reference holds no second "&", so references never overlap
UnescapePart(s, p, a) ==
    IF s[p] = "&" THEN Charref(s, p).chars
    ELSE IF a # 0 /\ Charref(s, a).next > p THEN <<>>
    ELSE <<s[p]>>

\* html.unescape: the named references &name; and &name
\* (numeric references need "#", which is not in the model's alphabet)
Unescape(s) ==
    IF FirstIn(s, 1, {"&"}) = 0 THEN s
    ELSE Flatten([p \in 1..Len(s) |-> UnescapePart(s, p, LastIn(s, p - 1, {"&"}))], 1, Len(s))

\* CollapseRuns with the quantifier {2} in place of {2,}: pairs are replaced one by one
CollapsePairs(s, cls, rep) ==
    Flatten([i \in 1..Len(s) |->
                IF s[i] \notin cls THEN <<s[i]>>
                ELSE IF (i - LastNotIn(s, i, cls)) % 2 = 0 THEN <<>>
                ELSE IF i < Len(s) /\ s[i + 1] \in cls THEN <<rep>>
                ELSE <<s[i]>>], 1, Len(s))

\* re.sub(cls{2,}, rep, s): a run of two or more characters of cls becomes rep
CollapseRuns(s, cls, rep) ==
    Flatten([i \in 1..Len(s) |->
                IF s[i] \notin cls THEN <<s[i]>>
                ELSE IF i > 1 /\ s[i - 1] \in cls THEN <<>>
                ELSE IF i < Len(s) /\ s[i + 1] \in cls THEN <<rep>>
                ELSE <<s[i]>>], 1, Len(s))

normalize_chunk_text(s) ==
    IF s = <<>> THEN <<>>
    ELSE LET n1 == StandardizeLineEndings(s)
             n2 == LineBreakSub(n1)
             n3 == HtmlTagSub(n2)
             n4 == ReplaceChar(Unescape(n3), NBSP, <<" ">>)
             n5 == CollapseRuns(n4, {"\n"}, "\n")
             n6 == CollapseRuns(n5, {" ", "\t"}, " ")
         IN  Strip(n6)

(***************************************************************************)
(* extract_number_from_line                                                *)
(***************************************************************************)
\* Multiplier with the two markers exchanged
MultiplierSwapped(lower_line) ==
    IF SearchWord(lower_line, <<"d", "r">>) THEN 0 - 1
    ELSE 1

\* the sign fixed by a credit or debit marker
Multiplier(lower_line) ==
    IF SearchWord(lower_line, <<"c", "r">>) THEN 0 - 1
    ELSE IF SearchWord(lower_line, <<"d", "r">>) THEN 1
    ELSE 1

\* line.replace(',', '').replace('$', '').replace('(', '-').replace(')', '')
CleanNumberChars(ln) ==
    ReplaceChar(ReplaceChar(ReplaceChar(ReplaceChar(ln, ",", <<>>), "$", <<>>),
                            "(", <<"-">>), ")", <<>>)

\* a marker dr or cr stands in low at index i as a word of its own
MarkerAt(low, i) == WordAt(low, <<"d", "r">>, i) \/ WordAt(low, <<"c", "r">>, i)

\* re.sub(r"\b(dr|cr)\b", "", s, flags=re.IGNORECASE); low is s.lower()
RemoveMarkers(s, low) ==
    Flatten([i \in 1..Len(s) |->
                IF MarkerAt(low, i) \/ MarkerAt(low, i - 1) THEN <<>> ELSE <<s[i]>>], 1, Len(s))

\* the loop over words: the first word that float() accepts with abs(value) >= 100
RECURSIVE FirstQualifying(_, _)
FirstQualifying(words, multiplier) ==
    IF words = <<>> THEN None
    ELSE LET value == ParseFloat(Head(words))
         IN  IF value # None /\ Abs(value[1]) >= 100 THEN Some(multiplier * value[1])
             ELSE FirstQualifying(Tail(words), multiplier)

extract_number_from_line(ln) ==
    IF ln = <<>> THEN None
    ELSE LET multiplier == Multiplier(Lower(ln))
             replaced   == CleanNumberChars(ln)
             cleaned    == RemoveMarkers(replaced, Lower(replaced))
         IN  FirstQualifying(SplitWhitespace(cleaned, 1), multiplier)

(***************************************************************************)
(* BeautifulSoup(raw_text, "html.parser") on table markup                  *)
(* The markup is cut into tags and text, and the first table element is    *)
(* read as its tr elements with their th and td cells.                     *)
(***************************************************************************)
S_table == <<"t", "a", "b", "l", "e">>
S_thead == <<"t", "h", "e", "a", "d">>
S_tbody == <<"t", "b", "o", "d", "y">>
S_tr == <<"t", "r">>
S_th == <<"t", "h">>
S_td == <<"t", "d">>
S_colspan == <<"c", "o", "l", "s", "p", "a", "n", "=", "\"">>

\* the tag written between "<" and ">"
TagToken(content) ==
    LET closing == content # <<>> /\ content[1] = "/"
        body    == IF closing THEN Tail(content) ELSE content
        sp      == FirstIn(body, 1, Whitespace)
        name    == IF sp = 0 THEN body ELSE SubSeq(body, 1, sp - 1)
        at      == {i \in 1..Len(body) : StartsAt(Lower(body), S_colspan, i)}
        from    == (CHOOSE i \in at : \A j \in at : i <= j) + Len(S_colspan)
        quote   == FirstIn(body, from, {"\""})
    IN  [kind    |-> IF closing THEN "close" ELSE "open",
         name    |-> Lower(name),
         colspan |-> IF at = {} \/ quote = 0 THEN None ELSE Some(SubSeq(body, from, quote - 1)),
         chars   |-> <<>>]

TextToken(chars) == [kind |-> "text", name |-> <<>>, colspan |-> None, chars |-> chars]

\* html.parser reads "<" as the start of a tag only before a letter or "/"
LetterOrSlash(c) ==
    c = "/" \/ c \in DOMAIN UpperToLower \/ c \in {UpperToLower[u] : u \in DOMAIN UpperToLower}

\* the tags and the runs of text of s, from index i on
RECURSIVE HtmlTokens(_, _)
HtmlTokens(s, i) ==
    IF i > Len(s) THEN <<>>
    ELSE LET close == FirstIn(s, i + 1, {">"})
         IN  IF s[i] = "<" /\ close # 0 /\ i + 1 <= Len(s) /\ LetterOrSlash(s[i + 1])
             THEN <<TagToken(SubSeq(s, i + 1, close - 1))>> \o HtmlTokens(s, close + 1)
             ELSE LET f == FirstIn(s, i + 1, {"<"})
                      e == IF f = 0 THEN Len(s) + 1 ELSE f
                  IN  <<TextToken(SubSeq(s, i, e - 1))>> \o HtmlTokens(s, e)

\* get_text(" ", strip=True): the stripped, non-empty strings joined by one space
AddText(sofar, chars) ==
    LET piece == Strip(Unescape(chars))
    IN  IF piece = <<>> THEN sofar
        ELSE IF sofar = <<>> THEN piece
        ELSE sofar \o <<" ">> \o piece

SoupStart ==
    [in_table |-> FALSE, done |-> FALSE, theads |-> 0, in_thead |-> FALSE,
     tbodies |-> 0, in_tbody |-> FALSE, in_tr |-> FALSE, in_cell |-> FALSE,
     trs |-> <<>>, all_text |-> <<>>]

\* one token read by the parser
SoupStep(st, tok) ==
    LET n == Len(st.trs)
        last == st.trs[n]
        m == Len(last.cells)
    IN
    IF st.done THEN st
    ELSE IF ~st.in_table
         THEN IF tok.kind = "open" /\ tok.name = S_table THEN [st EXCEPT !.in_table = TRUE] ELSE st
    ELSE IF tok.kind = "close" /\ tok.name = S_table
         THEN [st EXCEPT !.in_table = FALSE, !.done = TRUE]
    ELSE IF tok.kind = "open" /\ tok.name = S_thead
         THEN [st EXCEPT !.in_thead = TRUE, !.theads = @ + 1]
    ELSE IF tok.kind = "close" /\ tok.name = S_thead THEN [st EXCEPT !.in_thead = FALSE]
    ELSE IF tok.kind = "open" /\ tok.name = S_tbody
         THEN [st EXCEPT !.in_tbody = TRUE, !.tbodies = @ + 1]
    ELSE IF tok.kind = "close" /\ tok.name = S_tbody THEN [st EXCEPT !.in_tbody = FALSE]
    ELSE IF tok.kind = "open" /\ tok.name = S_tr
         THEN [st EXCEPT !.in_tr = TRUE, !.in_cell = FALSE,
                         !.trs = Append(@, [cells |-> <<>>,
                                            thead |-> st.in_thead /\ st.theads = 1,
                                            tbody |-> st.in_tbody /\ st.tbodies = 1])]
    ELSE IF tok.kind = "close" /\ tok.name = S_tr
         THEN [st EXCEPT !.in_tr = FALSE, !.in_cell = FALSE]
    ELSE IF tok.kind = "open" /\ tok.name \in {S_th, S_td} /\ st.in_tr
         THEN [st EXCEPT !.in_cell = TRUE,
                         !.trs[n].cells = Append(@, [tag |-> tok.name, text |-> <<>>,
                                                     colspan |-> tok.colspan])]
    ELSE IF tok.kind = "close" /\ tok.name \in {S_th, S_td} THEN [st EXCEPT !.in_cell = FALSE]
    ELSE IF tok.kind = "text"
         THEN IF st.in_cell /\ n > 0 /\ m > 0
              THEN [st EXCEPT !.trs[n].cells[m].text = AddText(@, tok.chars),
                              !.all_text = AddText(@, tok.chars)]
              ELSE [st EXCEPT !.all_text = AddText(@, tok.chars)]
    ELSE st

RECURSIVE SoupRun(_, _, _)
SoupRun(st, toks, k) ==
    IF k > Len(toks) \/ st.done THEN st ELSE SoupRun(SoupStep(st, toks[k]), toks, k + 1)

\* soup.find("table") of the parser state st: found, its tr elements, whether it
\* has a thead and a tbody, and its get_text(" ", strip=True)
SoupTable(st) ==
    [found |-> st.in_table \/ st.done, trs |-> st.trs,
     has_thead |-> st.theads > 0, has_tbody |-> st.tbodies > 0,
     table_text |-> st.all_text]

\* BeautifulSoup(raw, "html.parser").find("table")
BeautifulSoup(raw) == SoupTable(SoupRun(SoupStart, HtmlTokens(raw, 1), 1))

(***************************************************************************)
(* parse_table_rows                                                        *)
(***************************************************************************)
BS4_AVAILABLE == TRUE

S_tableTag == <<"<", "t", "a", "b", "l", "e">>
S_col == <<"c", "o", "l", "_">>
S_Column == <<"C", "o", "l", "u", "m", "n", " ">>
S_Field == <<"F", "i", "e", "l", "d">>
S_Value == <<"V", "a", "l", "u", "e">>

\* looks_like_header without the test for digits
looks_like_header_any_text(cells) ==
    /\ Len(cells) >= 2
    /\ \A i \in 1..Len(cells) : Len(Strip(cells[i])) < 50

\* looks_like_header(cells): at least two cells, each short and without a digit
looks_like_header(cells) ==
    /\ Len(cells) >= 2
    /\ \A i \in 1..Len(cells) :
          /\ Len(Strip(cells[i])) < 50
          /\ \A j \in 1..Len(cells[i]) : ~IsDigit(cells[i][j])

\* the cells of one tr with colspan expanded; raised when int(colspan) fails
RECURSIVE ExpandCells(_, _)
ExpandCells(cell_elements, k) ==
    IF k > Len(cell_elements) THEN [cells |-> <<>>, raised |-> FALSE]
    ELSE LET cell    == cell_elements[k]
             colspan == IF cell.colspan = None THEN Some(1) ELSE ParseInt(cell.colspan[1])
         IN  IF colspan = None THEN [cells |-> <<>>, raised |-> TRUE]
             ELSE LET rest == ExpandCells(cell_elements, k + 1)
                      pad  == [i \in 1..(IF colspan[1] > 1 THEN colspan[1] - 1 ELSE 0) |-> <<>>]
                  IN  [cells |-> <<cell.text>> \o pad \o rest.cells, raised |-> rest.raised]

\* header[idx] if idx < len(header) else f"col_{idx+1}"  (idx counts from 0)
ColumnName(hdr, idx) ==
    IF idx < Len(hdr) THEN hdr[idx + 1] ELSE S_col \o IntToStr(idx + 1)

\* the row dictionary of a list of cells, from cell idx on
RECURSIVE RowDict(_, _, _, _)
RowDict(d, cells, hdr, idx) ==
    IF idx >= Len(cells) THEN d
    ELSE RowDict(DictPut(d, ColumnName(hdr, idx), cells[idx + 1]), cells, hdr, idx + 1)

\* the synthetic header of a table whose first row is data
SyntheticHeader(cells) ==
    IF Len(cells) = 2 THEN <<S_Field, S_Value>>
    ELSE [i \in 1..Len(cells) |-> S_Column \o IntToStr(i)]

\* one tr without th cells, ex being its expanded cells
HtmlDataRow(st, ex, tr_idx) ==
    LET hdr == IF st.header # <<>> THEN st.header ELSE SyntheticHeader(ex.cells)
    IN  IF ex.raised THEN [st EXCEPT !.raised = TRUE]
        ELSE IF ex.cells = <<>> \/ \A i \in 1..Len(ex.cells) : Strip(ex.cells[i]) = <<>> THEN st
        ELSE IF st.header = <<>> /\ tr_idx = 0 /\ looks_like_header(ex.cells)
             THEN [st EXCEPT !.header = ex.cells]
        ELSE [st EXCEPT !.header = hdr, !.rows = Append(@, RowDict(<<>>, ex.cells, hdr, 0))]

\* a tr with th cells passed over without its cells becoming the header
HtmlRowWithoutTh(st, tr, th_cells, tr_idx) ==
    IF th_cells # <<>> THEN st
    ELSE HtmlDataRow(st, ExpandCells(tr.cells, 1), tr_idx)

\* one tr whose th cells are th_cells
HtmlRow(st, tr, th_cells, tr_idx) ==
    IF th_cells # <<>> /\ st.header = <<>>
    THEN [st EXCEPT !.header = [i \in 1..Len(th_cells) |-> th_cells[i].text]]
    ELSE IF th_cells # <<>> THEN st
    ELSE HtmlDataRow(st, ExpandCells(tr.cells, 1), tr_idx)

\* the loop over tr_elements from tr_idx on; st holds header, rows and raised
RECURSIVE HtmlRows(_, _, _)
HtmlRows(st, tr_elements, tr_idx) ==
    IF tr_idx >= Len(tr_elements) \/ st.raised THEN st
    ELSE HtmlRows(HtmlRow(st, tr_elements[tr_idx + 1],
                          SelectSeq(tr_elements[tr_idx + 1].cells, LAMBDA c : c.tag = S_th),
                          tr_idx),
                  tr_elements, tr_idx + 1)

\* the texts of all cells of the rows trs, from row k on
RECURSIVE CellTexts(_, _)
CellTexts(trs, k) ==
    IF k > Len(trs) THEN <<>>
    ELSE [i \in 1..Len(trs[k].cells) |-> trs[k].cells[i].text] \o CellTexts(trs, k + 1)

\* what the structured-markup block leaves and whether it returned
HtmlNothing == [header |-> <<>>, rows |-> <<>>, returns |-> FALSE, raised |-> FALSE]

\* the end of the structured-markup block, st being the state after the loop
HtmlReturn(st) ==
    LET hdr == IF st.rows # <<>> /\ st.header = <<>> THEN DictKeys(st.rows[1]) ELSE st.header
    IN  IF st.raised
        THEN [header |-> st.header, rows |-> st.rows, returns |-> FALSE, raised |-> TRUE]
        ELSE [header |-> hdr, rows |-> st.rows,
              returns |-> (hdr # <<>> \/ st.rows # <<>>), raised |-> FALSE]

\* the structured-markup block once the table element soup was looked up
HtmlFromSoup(soup) ==
    IF ~soup.found THEN HtmlNothing
    ELSE HtmlReturn(HtmlRows([header |-> CellTexts(SelectSeq(soup.trs, LAMBDA tr : tr.thead), 1),
                              rows |-> <<>>, raised |-> FALSE],
                             IF soup.has_tbody THEN SelectSeq(soup.trs, LAMBDA tr : tr.tbody)
                             ELSE soup.trs,
                             0))

\* The structured-markup strategy: header and rows as the block
\* leaves them, and whether it returned them.
HtmlStrategy(raw) ==
    IF ~(BS4_AVAILABLE /\ raw # <<>> /\ Contains(Lower(raw), S_tableTag)) THEN HtmlNothing
    ELSE HtmlFromSoup(BeautifulSoup(raw))

\* [line.strip() for line in normalized_text.split('\n') if line.strip()]
NormalizedLines(norm) ==
    LET ls == SplitOn(norm, "\n", 1)
    IN  SelectSeq([i \in 1..Len(ls) |-> Strip(ls[i])], LAMBDA l : l # <<>>)

\* s.strip('|')
StripPipes(s) == StripChars(s, {"|"})

\* the lines of a pipe table that are neither empty nor separators, split on "|"
RECURSIVE ParsedRows(_, _)
ParsedRows(markdown_lines, k) ==
    IF k > Len(markdown_lines) THEN <<>>
    ELSE LET ln       == markdown_lines[k]
             stripped == Strip(StripPipes(ln))
             parts    == SplitOn(StripPipes(ln), "|", 1)
         IN  IF stripped = <<>> \/ Range(stripped) \subseteq {"-", ":"}
             THEN ParsedRows(markdown_lines, k + 1)
             ELSE <<[i \in 1..Len(parts) |-> Strip(parts[i])]>> \o ParsedRows(markdown_lines, k + 1)

\* The pipe-delimited strategy, entered with the header and rows the block before left.
PipeStrategy(normalized_lines, hdr0, rows0) ==
    LET markdown_lines == SelectSeq(normalized_lines, LAMBDA l : Contains(l, <<"|">>))
        parsed_rows    == ParsedRows(markdown_lines, 1)
        hdr            == parsed_rows[1]
        more           == [i \in 1..(Len(parsed_rows) - 1) |->
                              RowDict(<<>>, parsed_rows[i + 1], hdr, 0)]
    IN  IF Len(markdown_lines) >= 2 /\ Len(parsed_rows) >= 2
        THEN [header |-> hdr, rows |-> rows0 \o more, returns |-> (rows0 \o more # <<>>)]
        ELSE [header |-> hdr0, rows |-> rows0, returns |-> FALSE]

RECURSIVE SplitWideGaps(_, _, _)
\* SplitWideGaps where f is the next white space (or 0) and e the end of its run
SplitAtGap(s, start, f, e) ==
    IF f = 0 THEN <<Slice(s, start, Len(s))>>
    ELSE IF e - f >= 2 THEN <<Slice(s, start, f - 1)>> \o SplitWideGaps(s, e, e)
    ELSE SplitWideGaps(s, start, e)

\* re.split(r"\s{2,}", s): the segment that starts at index start and was read
\* up to index i, and the segments after it
SplitWideGaps(s, start, i) ==
    LET f == FirstIn(s, i, Whitespace)
    IN  SplitAtGap(s, start, f, FirstNotIn(s, f, Whitespace))

\* [segment.strip() for segment in re.split(r"\s{2,}", line) if segment.strip()]
Segments(ln) ==
    LET segs == SplitWideGaps(ln, 1, 1)
    IN  SelectSeq([i \in 1..Len(segs) |-> Strip(segs[i])], LAMBDA g : g # <<>>)

\* the loop of the whitespace-column strategy from line k on
RECURSIVE WhitespaceRows(_, _, _)
WhitespaceRows(st, normalized_lines, k) ==
    IF k > Len(normalized_lines) THEN st
    ELSE LET parts == Segments(normalized_lines[k])
         IN  IF Len(parts) < 2 THEN WhitespaceRows(st, normalized_lines, k + 1)
             ELSE IF st.fallback_header = <<>>
                  THEN WhitespaceRows([st EXCEPT !.fallback_header = parts], normalized_lines, k + 1)
             ELSE WhitespaceRows(
                      [st EXCEPT !.rows = Append(@, RowDict(<<>>, parts, st.fallback_header, 0))],
                      normalized_lines, k + 1)

\* The whitespace-column strategy, entered with the rows the blocks before left.
WhitespaceStrategy(normalized_lines, rows0) ==
    LET st == WhitespaceRows([fallback_header |-> <<>>, rows |-> rows0], normalized_lines, 1)
    IN  [header |-> st.fallback_header, rows |-> st.rows, returns |-> (st.rows # <<>>)]

\* the end of parse_table_rows, ws being the outcome of the whitespace-column block
AfterWhitespace(ws) ==
    IF ws.returns THEN [header |-> ws.header, rows |-> ws.rows, by |-> "whitespace"]
    ELSE [header |-> <<>>, rows |-> <<>>, by |-> "none"]

\* parse_table_rows after the pipe-delimited block, pipe being its outcome
AfterPipe(pipe, lines) ==
    IF pipe.returns THEN [header |-> pipe.header, rows |-> pipe.rows, by |-> "pipe"]
    ELSE AfterWhitespace(WhitespaceStrategy(lines, pipe.rows))

\* parse_table_rows after the structured-markup block, html being its outcome
AfterHtml(html, lines) ==
    IF html.returns THEN [header |-> html.header, rows |-> html.rows, by |-> "html"]
    ELSE AfterPipe(PipeStrategy(lines, html.header, html.rows), lines)

\* parse_table_rows(raw_text, normalized_text): the pair returned, and the return taken
parse_table_rows(raw, norm) == AfterHtml(HtmlStrategy(raw), NormalizedLines(norm))

(***************************************************************************)
(* Inputs: strings put together from a few pieces                          *)
(***************************************************************************)
\* all concatenations of at most n pieces of P
RECURSIVE PieceStrings(_, _)
PieceStrings(P, n) ==
    IF n = 0 THEN {<<>>}
    ELSE LET prev == PieceStrings(P, n - 1)
         IN  prev \cup {p \o q : p \in P, q \in prev}

MaxPieces == 3

NormPieces ==
    { <<"&", "l", "t", ";">>, <<"&", "g", "t", ";">>, <<"&", "a", "m", "p", ";">>,
      <<"<", "b", "r", ">">>, <<"<", "b", ">">>, <<"<">>,
      <<"b">>, <<" ">>, <<" ", " ", " ">>, <<"\t">>, <<"\n">> }

\* words joined by single spaces
RECURSIVE Join(_)
Join(words) ==
    IF words = <<>> THEN <<>>
    ELSE IF Len(words) = 1 THEN words[1]
    ELSE words[1] \o <<" ">> \o Join(Tail(words))

\* all sequences of 1..n elements of W
RECURSIVE WordSeqs(_, _)
WordSeqs(W, n) ==
    IF n = 0 THEN {}
    ELSE LET prev == WordSeqs(W, n - 1)
         IN  {<<w>> : w \in W} \cup prev \cup {<<w>> \o q : w \in W, q \in prev}

MaxWords == 3

NumLabels == { <<"F", "e", "e">>, <<"B", "a", "l", "a", "n", "c", "e">>, <<"Y", "e", "a", "r">> }

\* numeric tokens as written in a document, with the magnitude they denote
NumTokens ==
    { [chars |-> <<"5", "0", "0">>, value |-> 500],
      [chars |-> <<"1", ",", "2", "0", "0">>, value |-> 1200],
      [chars |-> <<"$", "1", ",", "2", "0", "0">>, value |-> 1200],
      [chars |-> <<"2", "0", "2", "3">>, value |-> 2023],
      [chars |-> <<"5", "0">>, value |-> 50] }

Paren(s) == <<"(">> \o s \o <<")">>

DrMarker == <<"D", "r">>

CrMarker == <<"C", "r">>

NumWords ==
    NumLabels \cup {t.chars : t \in NumTokens}
        \cup {Paren(t.chars) : t \in {u \in NumTokens : u.chars[1] # "$" /\ u.value >= 100}}
        \cup {DrMarker, CrMarker}

(***************************************************************************)
(* Table markup and plain text handed to parse_table_rows                  *)
(***************************************************************************)
Td(chars) == [tag |-> S_td, text |-> chars, colspan |-> None]

Th(chars) == [tag |-> S_th, text |-> chars, colspan |-> None]

TdSpan(chars, span) == [tag |-> S_td, text |-> chars, colspan |-> Some(span)]

ThSpan(chars, span) == [tag |-> S_th, text |-> chars, colspan |-> Some(span)]

S_Item == <<"I", "t", "e", "m">>
S_Amount == <<"A", "m", "o", "u", "n", "t">>
S_Name == <<"N", "a", "m", "e">>
S_John == <<"J", "o", "h", "n">>
S_Date == <<"D", "a", "t", "e">>
S_IsoDate == <<"2", "0", "2", "4", "-", "0", "1", "-", "0", "1">>
S_TotalAssets == <<"T", "o", "t", "a", "l", " ", "A", "s", "s", "e", "t", "s">>
S_1000 == <<"1", ",", "0", "0", "0">>
S_2000 == <<"2", ",", "0", "0", "0">>

RowItemAmount == <<Th(S_Item), Th(S_Amount)>>
RowNameJohn == <<Td(S_Name), Td(S_John)>>
RowDateIso == <<Td(S_Date), Td(S_IsoDate)>>
RowWide == <<Td(S_TotalAssets), Td(S_1000), Td(S_2000)>>
RowSpan == <<TdSpan(<<"S", "u", "b">>, <<"2">>), Td(<<"5">>)>>
RowBadSpan == <<TdSpan(<<"B", "a", "d">>, <<"x">>)>>
RowBlank == <<Td(<<>>)>>
RowSpanHeader == <<ThSpan(<<"S", "u", "b">>, <<"2">>), Th(<<"T", "o", "t", "a", "l">>)>>

RowChoices ==
    {RowItemAmount, RowNameJohn, RowDateIso, RowWide, RowSpan, RowBadSpan, RowBlank,
     RowSpanHeader}

MaxRows == 2

\* all sequences of 0..n elements of W
SeqsUpTo(W, n) == {<<>>} \cup WordSeqs(W, n)

\* the tables of at most n rows: the rows, whether the first row is inside a thead
\* and whether the others are inside a tbody
Tables(n) ==
    {[trs |-> q, thead |-> l[1], tbody |-> l[2]] :
        q \in SeqsUpTo(RowChoices, n), l \in {<<FALSE, FALSE>>, <<TRUE, FALSE>>, <<TRUE, TRUE>>}}

Tag(name) == <<"<">> \o name \o <<">">>

EndTag(name) == <<"<", "/">> \o name \o <<">">>

RenderCell(c) ==
    (IF c.colspan = None THEN Tag(c.tag)
     ELSE <<"<">> \o c.tag \o <<" ">> \o S_colspan \o c.colspan[1] \o <<"\"", ">">>)
    \o c.text \o EndTag(c.tag)

RECURSIVE RenderCells(_)
RenderCells(cs) == IF cs = <<>> THEN <<>> ELSE RenderCell(Head(cs)) \o RenderCells(Tail(cs))

RenderRow(r) == Tag(S_tr) \o RenderCells(r) \o EndTag(S_tr)

RECURSIVE RenderRows(_)
RenderRows(rs) == IF rs = <<>> THEN <<>> ELSE RenderRow(Head(rs)) \o RenderRows(Tail(rs))

\* the markup of a table
RenderTable(t) ==
    LET first == IF t.trs = <<>> THEN <<>> ELSE <<Head(t.trs)>>
        rest  == IF t.trs = <<>> THEN <<>> ELSE Tail(t.trs)
    IN  Tag(S_table)
        \o (IF t.thead THEN Tag(S_thead) \o RenderRows(first) \o EndTag(S_thead)
            ELSE RenderRows(first))
        \o (IF t.tbody THEN Tag(S_tbody) \o RenderRows(rest) \o EndTag(S_tbody)
            ELSE RenderRows(rest))
        \o EndTag(S_table)

\* a table without thead and tbody
PlainTable(trs) == RenderTable([trs |-> trs, thead |-> FALSE, tbody |-> FALSE])

\* text that may stand before a table in a chunk
Prefixes == {<<>>, <<"x", " ", "|", " ", "y", "\n", "a", " ", "|", " ", "b", "\n">>}

LineItemAmount == <<"I", "t", "e", "m", " ", "|", " ", "A", "m", "o", "u", "n", "t">>
LineSeparator == <<"-", "-", "-", "|", "-", "-", "-">>
LineTotalWide == <<"T", "o", "t", "a", "l", " ", "|", " ", "1", ",", "0", "0", "0", " ", "|", " ", "2", ",", "0", "0", "0">>
LineSpaces == <<"I", "t", "e", "m", " ", " ", "A", "m", "o", "u", "n", "t">>
LineEmItem == S_Item \o <<EMSP, EMSP>> \o S_Amount
LineEmTotal == <<"T", "o", "t", "a", "l">> \o <<EMSP, EMSP>> \o S_1000 \o <<EMSP, EMSP>> \o S_2000

LineChoices ==
    {LineItemAmount, LineSeparator, LineTotalWide, LineSpaces, LineEmItem, LineEmTotal}

MaxLines == 3

\* lines joined by "\n"
RECURSIVE JoinLines(_)
JoinLines(ls) ==
    IF ls = <<>> THEN <<>>
    ELSE IF Len(ls) = 1 THEN ls[1]
    ELSE ls[1] \o <<"\n">> \o JoinLines(Tail(ls))

PlainTexts(n) == {JoinLines(q) : q \in WordSeqs(LineChoices, n)}

\* the chunk markups with tables of at most n rows and texts of at most m lines
ChunkMarkups(n, m) == {p \o RenderTable(t) : p \in Prefixes, t \in Tables(n)} \cup PlainTexts(m)

\* the argument pairs of parse_table_rows: from a chunk, raw markup and its
\* normalized text; from the full markup, a table element and its text
ParseArguments(n, m) ==
    {[raw |-> c, norm |-> normalize_chunk_text(c)] : c \in ChunkMarkups(n, m)}
    \cup {[raw |-> RenderTable(t), norm |-> BeautifulSoup(RenderTable(t)).table_text] :
             t \in Tables(n)}

(***************************************************************************)
(* Specification SpecNorm: normalize_chunk_text applied once and again     *)
(***************************************************************************)
\* the variables of a function that the specification at hand does not call
NormIdle == text = <<>> /\ normalized = <<>> /\ renormalized = <<>>

NumIdle == line = <<>> /\ number = None

ParseIdle == raw_text = <<>> /\ normalized_text = <<>> /\ header = <<>> /\ rows = <<>>

MapIdle ==
    /\ ade_response = <<>>
    /\ pdf_text = <<>>
    /\ financial_data = <<>>
    /\ processed_table_ids = {}
    /\ chunk_index = 0
    /\ result = <<>>

TaskIdle == document = <<>> /\ processed_data_path = None

InitNorm ==
    /\ pc = "norm_start"
    /\ text \in PieceStrings(NormPieces, MaxPieces)
    /\ normalized = <<>>
    /\ renormalized = <<>>
    /\ NumIdle
    /\ ParseIdle
    /\ MapIdle
    /\ TaskIdle

Normalize ==
    /\ pc = "norm_start"
    /\ normalized' = normalize_chunk_text(text)
    /\ pc' = "norm_once"
    /\ UNCHANGED <<text, renormalized, numVars, parseVars, mapVars, taskVars>>

NormalizeAgain ==
    /\ pc = "norm_once"
    /\ renormalized' = normalize_chunk_text(normalized)
    /\ pc' = "norm_twice"
    /\ UNCHANGED <<text, normalized, numVars, parseVars, mapVars, taskVars>>

NextNorm == Normalize \/ NormalizeAgain

SpecNorm == InitNorm /\ [][NextNorm]_vars

\* C4 (as stated): normalize_chunk_text(normalize_chunk_text(s)) equals
\* normalize_chunk_text(s) for every input string s, encoded entities included.
IdempotentNormalization ==
    pc = "norm_twice" => renormalized = normalized

\* C4 (amended): for every input string s without a character reference (no "&"),
\* normalizing the normalized text again changes nothing.
IdempotentWithoutEntities ==
    (pc = "norm_twice" /\ ~Contains(text, <<"&">>)) => renormalized = normalized

\* C4 witness: a string with a tag and white space but no "&" was normalized twice,
\* and the first normalization changed it.
IdempotentWitness ==
    /\ pc = "norm_twice"
    /\ ~Contains(text, <<"&">>)
    /\ Contains(text, <<"<", "b", "r", ">">>)
    /\ normalized # text
    /\ normalized # <<>>

(***************************************************************************)
(* Specification SpecNum: extract_number_from_line applied to one line     *)
(***************************************************************************)
InitNum ==
    /\ pc = "num_start"
    /\ line \in {Join(ws) : ws \in WordSeqs(NumWords, MaxWords)}
    /\ number = None
    /\ NormIdle
    /\ ParseIdle
    /\ MapIdle
    /\ TaskIdle

ExtractNumber ==
    /\ pc = "num_start"
    /\ number' = extract_number_from_line(line)
    /\ pc' = "num_done"
    /\ UNCHANGED <<line, normVars, parseVars, mapVars, taskVars>>

\* the caller reads the value
NumberReturned ==
    /\ pc = "num_done"
    /\ pc' = "num_returned"
    /\ UNCHANGED <<normVars, numVars, parseVars, mapVars, taskVars>>

NextNum == ExtractNumber \/ NumberReturned

SpecNum == InitNum /\ [][NextNum]_vars

\* C5: a parenthesized number is returned negative, a number on a line with a Dr
\* marker keeps its sign, a number on a line with a Cr marker is negated, and
\* thousands separators and the currency symbol do not change the magnitude
\* ("Fee (500)" gives -500, "Balance 1,200 Dr" 1200, "Balance 1,200 Cr" -1200).
NumericSignConvention ==
    pc = "num_done" =>
        \A lab \in NumLabels : \A t \in {u \in NumTokens : u.value >= 100} :
            /\ line = Join(<<lab, Paren(t.chars)>>) => number = Some(0 - t.value)
            /\ line = Join(<<lab, t.chars, DrMarker>>) => number = Some(t.value)
            /\ line = Join(<<lab, t.chars, CrMarker>>) => number = Some(0 - t.value)
            /\ line = Join(<<lab, t.chars>>) => number = Some(t.value)

\* C5 witness: "Balance 1,200 Cr" was evaluated and gave -1200.
NumericSignWitness ==
    /\ pc = "num_done"
    /\ line = Join(<<<<"B", "a", "l", "a", "n", "c", "e">>, <<"1", ",", "2", "0", "0">>, CrMarker>>)
    /\ number = Some(0 - 1200)

\* C6: extract_number_from_line("Year 2023") returns null.
YearRejected ==
    (pc = "num_done" /\ line = Join(<<<<"Y", "e", "a", "r">>, <<"2", "0", "2", "3">>>>))
        => number = None

(***************************************************************************)
(* Specification SpecParse: parse_table_rows, one strategy per step        *)
(***************************************************************************)
InitParse ==
    /\ pc = "parse_start"
    /\ \E a \in ParseArguments(MaxRows, MaxLines) : raw_text = a.raw /\ normalized_text = a.norm
    /\ header = <<>>
    /\ rows = <<>>
    /\ NormIdle
    /\ NumIdle
    /\ MapIdle
    /\ TaskIdle

\* the structured-markup block
ParseHtml ==
    /\ pc = "parse_start"
    /\ LET html == HtmlStrategy(raw_text)
       IN  /\ header' = html.header
           /\ rows' = html.rows
           /\ pc' = IF html.returns THEN "returned_html" ELSE "parse_pipe"
    /\ UNCHANGED <<raw_text, normalized_text, normVars, numVars, mapVars, taskVars>>

\* the pipe-delimited block
ParsePipe ==
    /\ pc = "parse_pipe"
    /\ LET pipe == PipeStrategy(NormalizedLines(normalized_text), header, rows)
       IN  /\ header' = pipe.header
           /\ rows' = pipe.rows
           /\ pc' = IF pipe.returns THEN "returned_pipe" ELSE "parse_whitespace"
    /\ UNCHANGED <<raw_text, normalized_text, normVars, numVars, mapVars, taskVars>>

\* the whitespace-column block and the final return
ParseWhitespace ==
    /\ pc = "parse_whitespace"
    /\ LET ws == WhitespaceStrategy(NormalizedLines(normalized_text), rows)
       IN  IF ws.returns
           THEN header' = ws.header /\ rows' = ws.rows /\ pc' = "returned_whitespace"
           ELSE header' = <<>> /\ rows' = <<>> /\ pc' = "returned_none"
    /\ UNCHANGED <<raw_text, normalized_text, normVars, numVars, mapVars, taskVars>>

NextParse == ParseHtml \/ ParsePipe \/ ParseWhitespace

SpecParse == InitParse /\ [][NextParse]_vars

ParseReturned ==
    pc \in {"returned_html", "returned_pipe", "returned_whitespace", "returned_none"}

\* C1: every key of every returned row mapping is an element of the returned
\* header, rows with more cells than the header has columns included.
RowKeysInHeader ==
    ParseReturned =>
        \A i \in 1..Len(rows) : Range(DictKeys(rows[i])) \subseteq Range(header)

\* C2: whenever at least one row is returned the returned header is not empty.
HeaderNonEmptyWithRows ==
    ParseReturned => (rows # <<>> => header # <<>>)

\* C7: for markup with both a table tag and a pipe character, once the
\* structured-markup strategy has yielded a header or a row, that header and
\* those rows are what is returned, and no later strategy is tried.
CascadeOrder ==
    (ParseReturned /\ Contains(Lower(raw_text), S_tableTag) /\ Contains(raw_text, <<"|">>)) =>
        LET html == HtmlStrategy(raw_text)
        IN  (html.header # <<>> \/ html.rows # <<>>) =>
                /\ pc = "returned_html"
                /\ header = html.header
                /\ rows = html.rows

\* C8 (as stated): the table with no header markup and the rows ["Name","John"],
\* ["Date","2024-01-01"] gets the synthetic header ["Field","Value"] and both
\* source rows are returned as data rows.
TwoColumnSyntheticHeader ==
    (ParseReturned /\ raw_text = PlainTable(<<RowNameJohn, RowDateIso>>)) =>
        /\ header = <<S_Field, S_Value>>
        /\ Len(rows) = 2

\* C8 (amended): the first row of a table without header markup is taken as
\* the header when it looks like one (two or more short cells without a digit):
\* for the rows ["Name","John"], ["Date","2024-01-01"] the header is
\* ["Name","John"] and only the second row is returned; in the order
\* ["Date","2024-01-01"], ["Name","John"] the first row is data, the header is
\* the synthetic ["Field","Value"] and both rows are returned.
TwoColumnFirstRowRule ==
    ParseReturned =>
        /\ raw_text = PlainTable(<<RowNameJohn, RowDateIso>>) =>
              /\ header = <<S_Name, S_John>>
              /\ rows = << << <<S_Name, S_Date>>, <<S_John, S_IsoDate>> >> >>
        /\ raw_text = PlainTable(<<RowDateIso, RowNameJohn>>) =>
              /\ header = <<S_Field, S_Value>>
              /\ rows = << << <<S_Field, S_Date>>, <<S_Value, S_IsoDate>> >>,
                           << <<S_Field, S_Name>>, <<S_Value, S_John>> >> >>

\* C8 witness: the table whose first row holds a date was parsed and got the
\* synthetic header with both rows as data.
TwoColumnWitness ==
    /\ pc = "returned_html"
    /\ raw_text = PlainTable(<<RowDateIso, RowNameJohn>>)
    /\ header = <<S_Field, S_Value>>
    /\ Len(rows) = 2

(***************************************************************************)
(* map_to_financial_schema: the entries of the parse response              *)
(***************************************************************************)
\* the string literals of the mapping functions, as sequences of characters
Str ==
    [Acme_Ltd |-> <<"A", "c", "m", "e", " ", "L", "t", "d">>,
     adjustment |-> <<"a", "d", "j", "u", "s", "t", "m", "e", "n", "t">>,
     amount |-> <<"a", "m", "o", "u", "n", "t">>,
     Amount |-> <<"A", "m", "o", "u", "n", "t">>,
     asset |-> <<"a", "s", "s", "e", "t">>,
     assets |-> <<"a", "s", "s", "e", "t", "s">>,
     Assets |-> <<"A", "s", "s", "e", "t", "s">>,
     balance |-> <<"b", "a", "l", "a", "n", "c", "e">>,
     balance_sheet |-> <<"b", "a", "l", "a", "n", "c", "e", " ", "s", "h", "e", "e", "t">>,
     Balance_Sheet |-> <<"B", "a", "l", "a", "n", "c", "e", " ", "S", "h", "e", "e", "t">>,
     bank_copy |-> <<"b", "a", "n", "k", " ", "c", "o", "p", "y">>,
     bill |-> <<"b", "i", "l", "l">>,
     c1 |-> <<"c", "1">>,
     c2 |-> <<"c", "2">>,
     c3 |-> <<"c", "3">>,
     c4 |-> <<"c", "4">>,
     c5 |-> <<"c", "5">>,
     c6 |-> <<"c", "6">>,
     c7 |-> <<"c", "7">>,
     c8 |-> <<"c", "8">>,
     Calling_Landing_AI_ADE_API___ |-> <<"C", "a", "l", "l", "i", "n", "g", " ", "L", "a", "n",
                                         "d", "i", "n", "g", ".", "A", "I", " ", "A", "D", "E",
                                         " ", "A", "P", "I", ".", ".", ".">>,
     cash |-> <<"c", "a", "s", "h">>,
     cash_flow |-> <<"c", "a", "s", "h", " ", "f", "l", "o", "w">>,
     Cash_Flow |-> <<"C", "a", "s", "h", " ", "F", "l", "o", "w">>,
     cash_flow_from_financing |-> <<"c", "a", "s", "h", " ", "f", "l", "o", "w", " ", "f", "r",
                                    "o", "m", " ", "f", "i", "n", "a", "n", "c", "i", "n",
                                    "g">>,
     cash_flow_from_investing |-> <<"c", "a", "s", "h", " ", "f", "l", "o", "w", " ", "f", "r",
                                    "o", "m", " ", "i", "n", "v", "e", "s", "t", "i", "n",
                                    "g">>,
     cash_flow_from_operations |-> <<"c", "a", "s", "h", " ", "f", "l", "o", "w", " ", "f", "r",
                                     "o", "m", " ", "o", "p", "e", "r", "a", "t", "i", "o", "n",
                                     "s">>,
     Cash_Flow_Statement |-> <<"C", "a", "s", "h", " ", "F", "l", "o", "w", " ", "S", "t", "a",
                               "t", "e", "m", "e", "n", "t">>,
     challan |-> <<"c", "h", "a", "l", "l", "a", "n">>,
     col_3 |-> <<"c", "o", "l", "_", "3">>,
     company |-> <<"c", "o", "m", "p", "a", "n", "y">>,
     complete |-> <<"c", "o", "m", "p", "l", "e", "t", "e">>,
     copy |-> <<"c", "o", "p", "y">>,
     corp |-> <<"c", "o", "r", "p">>,
     corporation |-> <<"c", "o", "r", "p", "o", "r", "a", "t", "i", "o", "n">>,
     date |-> <<"d", "a", "t", "e">>,
     dividend |-> <<"d", "i", "v", "i", "d", "e", "n", "d">>,
     Document |-> <<"D", "o", "c", "u", "m", "e", "n", "t">>,
     Document_processing_complete |-> <<"D", "o", "c", "u", "m", "e", "n", "t", " ", "p", "r",
                                        "o", "c", "e", "s", "s", "i", "n", "g", " ", "c", "o",
                                        "m", "p", "l", "e", "t", "e">>,
     ended |-> <<"e", "n", "d", "e", "d">>,
     ending |-> <<"e", "n", "d", "i", "n", "g">>,
     equity |-> <<"e", "q", "u", "i", "t", "y">>,
     Equity |-> <<"E", "q", "u", "i", "t", "y">>,
     error |-> <<"e", "r", "r", "o", "r">>,
     Error_mapping_financial_schema |-> <<"E", "r", "r", "o", "r", " ", "m", "a", "p", "p", "i",
                                          "n", "g", " ", "f", "i", "n", "a", "n", "c", "i", "a",
                                          "l", " ", "s", "c", "h", "e", "m", "a">>,
     Error_Mapping_Schema |-> <<"E", "r", "r", "o", "r", " ", "M", "a", "p", "p", "i", "n", "g",
                                " ", "S", "c", "h", "e", "m", "a">>,
     Error_Processing_Document |-> <<"E", "r", "r", "o", "r", " ", "P", "r", "o", "c", "e", "s",
                                     "s", "i", "n", "g", " ", "D", "o", "c", "u", "m", "e", "n",
                                     "t">>,
     Error_processing_document |-> <<"E", "r", "r", "o", "r", " ", "p", "r", "o", "c", "e", "s",
                                     "s", "i", "n", "g", " ", "d", "o", "c", "u", "m", "e", "n",
                                     "t">>,
     fee |-> <<"f", "e", "e">>,
     fee_amount |-> <<"f", "e", "e", " ", "a", "m", "o", "u", "n", "t">>,
     Fee_Amount |-> <<"F", "e", "e", " ", "A", "m", "o", "u", "n", "t">>,
     fee_bill |-> <<"f", "e", "e", " ", "b", "i", "l", "l">>,
     Fee_Document |-> <<"F", "e", "e", " ", "D", "o", "c", "u", "m", "e", "n", "t">>,
     Finalizing_document_data___ |-> <<"F", "i", "n", "a", "l", "i", "z", "i", "n", "g", " ",
                                       "d", "o", "c", "u", "m", "e", "n", "t", " ", "d", "a",
                                       "t", "a", ".", ".", ".">>,
     financial |-> <<"f", "i", "n", "a", "n", "c", "i", "a", "l">>,
     financial_position |-> <<"f", "i", "n", "a", "n", "c", "i", "a", "l", " ", "p", "o", "s",
                              "i", "t", "i", "o", "n">>,
     Financial_Report |-> <<"F", "i", "n", "a", "n", "c", "i", "a", "l", " ", "R", "e", "p",
                            "o", "r", "t">>,
     Financial_Statement |-> <<"F", "i", "n", "a", "n", "c", "i", "a", "l", " ", "S", "t", "a",
                               "t", "e", "m", "e", "n", "t">>,
     financing_activities |-> <<"f", "i", "n", "a", "n", "c", "i", "n", "g", " ", "a", "c", "t",
                                "i", "v", "i", "t", "i", "e", "s">>,
     Financing_Cash_Flow |-> <<"F", "i", "n", "a", "n", "c", "i", "n", "g", " ", "C", "a", "s",
                               "h", " ", "F", "l", "o", "w">>,
     flow |-> <<"f", "l", "o", "w">>,
     form |-> <<"f", "o", "r", "m">>,
     full_markdown_table_ |-> <<"f", "u", "l", "l", "-", "m", "a", "r", "k", "d", "o", "w", "n",
                                "-", "t", "a", "b", "l", "e", "-">>,
     full_markdown_table_0 |-> <<"f", "u", "l", "l", "-", "m", "a", "r", "k", "d", "o", "w",
                                 "n", "-", "t", "a", "b", "l", "e", "-", "0">>,
     full_markdown_table_1 |-> <<"f", "u", "l", "l", "-", "m", "a", "r", "k", "d", "o", "w",
                                 "n", "-", "t", "a", "b", "l", "e", "-", "1">>,
     gross_margin |-> <<"g", "r", "o", "s", "s", " ", "m", "a", "r", "g", "i", "n">>,
     gross_profit |-> <<"g", "r", "o", "s", "s", " ", "p", "r", "o", "f", "i", "t">>,
     Gross_Profit |-> <<"G", "r", "o", "s", "s", " ", "P", "r", "o", "f", "i", "t">>,
     inc |-> <<"i", "n", "c">>,
     income |-> <<"i", "n", "c", "o", "m", "e">>,
     Income |-> <<"I", "n", "c", "o", "m", "e">>,
     income_statement |-> <<"i", "n", "c", "o", "m", "e", " ", "s", "t", "a", "t", "e", "m",
                            "e", "n", "t">>,
     Income_Statement |-> <<"I", "n", "c", "o", "m", "e", " ", "S", "t", "a", "t", "e", "m",
                            "e", "n", "t">>,
     investing_activities |-> <<"i", "n", "v", "e", "s", "t", "i", "n", "g", " ", "a", "c", "t",
                                "i", "v", "i", "t", "i", "e", "s">>,
     Investing_Cash_Flow |-> <<"I", "n", "v", "e", "s", "t", "i", "n", "g", " ", "C", "a", "s",
                               "h", " ", "F", "l", "o", "w">>,
     invoice |-> <<"i", "n", "v", "o", "i", "c", "e">>,
     Invoice |-> <<"I", "n", "v", "o", "i", "c", "e">>,
     Invoice_2024 |-> <<"I", "n", "v", "o", "i", "c", "e", " ", "2", "0", "2", "4">>,
     Item |-> <<"I", "t", "e", "m">>,
     liabil |-> <<"l", "i", "a", "b", "i", "l">>,
     liabilities |-> <<"l", "i", "a", "b", "i", "l", "i", "t", "i", "e", "s">>,
     Liabilities |-> <<"L", "i", "a", "b", "i", "l", "i", "t", "i", "e", "s">>,
     llc |-> <<"l", "l", "c">>,
     ltd |-> <<"l", "t", "d">>,
     markdown_table |-> <<"m", "a", "r", "k", "d", "o", "w", "n", "_", "t", "a", "b", "l",
                          "e">>,
     n_a |-> <<"n", "/", "a">>,
     net_cash_provided_by_operating_activities |-> <<"n", "e", "t", " ", "c", "a", "s", "h",
                                                     " ", "p", "r", "o", "v", "i", "d", "e",
                                                     "d", " ", "b", "y", " ", "o", "p", "e",
                                                     "r", "a", "t", "i", "n", "g", " ", "a",
                                                     "c", "t", "i", "v", "i", "t", "i", "e",
                                                     "s">>,
     net_earnings |-> <<"n", "e", "t", " ", "e", "a", "r", "n", "i", "n", "g", "s">>,
     net_income |-> <<"n", "e", "t", " ", "i", "n", "c", "o", "m", "e">>,
     Net_Income |-> <<"N", "e", "t", " ", "I", "n", "c", "o", "m", "e">>,
     net_profit |-> <<"n", "e", "t", " ", "p", "r", "o", "f", "i", "t">>,
     net_sales |-> <<"n", "e", "t", " ", "s", "a", "l", "e", "s">>,
     operating |-> <<"o", "p", "e", "r", "a", "t", "i", "n", "g">>,
     operating_activities |-> <<"o", "p", "e", "r", "a", "t", "i", "n", "g", " ", "a", "c", "t",
                                "i", "v", "i", "t", "i", "e", "s">>,
     Operating_Cash_Flow |-> <<"O", "p", "e", "r", "a", "t", "i", "n", "g", " ", "C", "a", "s",
                               "h", " ", "F", "l", "o", "w">>,
     operating_cash_flow |-> <<"o", "p", "e", "r", "a", "t", "i", "n", "g", " ", "c", "a", "s",
                               "h", " ", "f", "l", "o", "w">>,
     payment |-> <<"p", "a", "y", "m", "e", "n", "t">>,
     Payment |-> <<"P", "a", "y", "m", "e", "n", "t">>,
     period |-> <<"p", "e", "r", "i", "o", "d">>,
     premium |-> <<"p", "r", "e", "m", "i", "u", "m">>,
     processed_json |-> <<"p", "r", "o", "c", "e", "s", "s", "e", "d", ".", "j", "s", "o",
                          "n">>,
     processing |-> <<"p", "r", "o", "c", "e", "s", "s", "i", "n", "g">>,
     profit_and_loss |-> <<"p", "r", "o", "f", "i", "t", " ", "a", "n", "d", " ", "l", "o", "s",
                           "s">>,
     quarter |-> <<"q", "u", "a", "r", "t", "e", "r">>,
     Quarter_ended_March |-> <<"Q", "u", "a", "r", "t", "e", "r", " ", "e", "n", "d", "e", "d",
                               " ", "M", "a", "r", "c", "h">>,
     Quarterly_figures |-> <<"Q", "u", "a", "r", "t", "e", "r", "l", "y", " ", "f", "i", "g",
                             "u", "r", "e", "s">>,
     receipt |-> <<"r", "e", "c", "e", "i", "p", "t">>,
     Receipt |-> <<"R", "e", "c", "e", "i", "p", "t">>,
     report |-> <<"r", "e", "p", "o", "r", "t">>,
     Report |-> <<"R", "e", "p", "o", "r", "t">>,
     revenue |-> <<"r", "e", "v", "e", "n", "u", "e">>,
     Revenue |-> <<"R", "e", "v", "e", "n", "u", "e">>,
     REVENUE |-> <<"R", "E", "V", "E", "N", "U", "E">>,
     sales |-> <<"s", "a", "l", "e", "s">>,
     shareholders__equity |-> <<"s", "h", "a", "r", "e", "h", "o", "l", "d", "e", "r", "s", "'",
                                " ", "e", "q", "u", "i", "t", "y">>,
     Started_document_processing |-> <<"S", "t", "a", "r", "t", "e", "d", " ", "d", "o", "c",
                                       "u", "m", "e", "n", "t", " ", "p", "r", "o", "c", "e",
                                       "s", "s", "i", "n", "g">>,
     statement |-> <<"s", "t", "a", "t", "e", "m", "e", "n", "t">>,
     statement_of_cash_flows |-> <<"s", "t", "a", "t", "e", "m", "e", "n", "t", " ", "o", "f",
                                   " ", "c", "a", "s", "h", " ", "f", "l", "o", "w", "s">>,
     statement_of_operations |-> <<"s", "t", "a", "t", "e", "m", "e", "n", "t", " ", "o", "f",
                                   " ", "o", "p", "e", "r", "a", "t", "i", "o", "n", "s">>,
     student_copy |-> <<"s", "t", "u", "d", "e", "n", "t", " ", "c", "o", "p", "y">>,
     Table |-> <<"T", "a", "b", "l", "e">>,
     table |-> <<"t", "a", "b", "l", "e">>,
     table_ |-> <<"t", "a", "b", "l", "e", "-">>,
     table_0 |-> <<"t", "a", "b", "l", "e", "-", "0">>,
     text |-> <<"t", "e", "x", "t">>,
     total |-> <<"t", "o", "t", "a", "l">>,
     Total |-> <<"T", "o", "t", "a", "l">>,
     total_amount |-> <<"t", "o", "t", "a", "l", " ", "a", "m", "o", "u", "n", "t">>,
     Total_Assets |-> <<"T", "o", "t", "a", "l", " ", "A", "s", "s", "e", "t", "s">>,
     total_assets |-> <<"t", "o", "t", "a", "l", " ", "a", "s", "s", "e", "t", "s">>,
     Total_Equity |-> <<"T", "o", "t", "a", "l", " ", "E", "q", "u", "i", "t", "y">>,
     total_equity |-> <<"t", "o", "t", "a", "l", " ", "e", "q", "u", "i", "t", "y">>,
     total_fee |-> <<"t", "o", "t", "a", "l", " ", "f", "e", "e">>,
     Total_Liabilities |-> <<"T", "o", "t", "a", "l", " ", "L", "i", "a", "b", "i", "l", "i",
                             "t", "i", "e", "s">>,
     total_liabilities |-> <<"t", "o", "t", "a", "l", " ", "l", "i", "a", "b", "i", "l", "i",
                             "t", "i", "e", "s">>,
     total_revenue |-> <<"t", "o", "t", "a", "l", " ", "r", "e", "v", "e", "n", "u", "e">>,
     university_copy |-> <<"u", "n", "i", "v", "e", "r", "s", "i", "t", "y", " ", "c", "o", "p",
                           "y">>,
     Unknown |-> <<"U", "n", "k", "n", "o", "w", "n">>,
     Unknown_Company |-> <<"U", "n", "k", "n", "o", "w", "n", " ", "C", "o", "m", "p", "a", "n",
                           "y">>,
     Unknown_Date |-> <<"U", "n", "k", "n", "o", "w", "n", " ", "D", "a", "t", "e">>,
     uploaded |-> <<"u", "p", "l", "o", "a", "d", "e", "d">>]

\* d.get(key) of a response dictionary: the key is absent, holds null, or holds v
Missing == [kind |-> "missing", value |-> <<>>]

Null == [kind |-> "null", value |-> <<>>]

Field(v) == [kind |-> "value", value |-> v]

\* the truth value of a string entry: present, not null and not empty
Truthy(f) == f.kind = "value" /\ f.value # <<>>

\* chunk.get("markdown") or chunk.get("text") or chunk.get("content") or ""
RawChunkText(chunk) ==
    IF Truthy(chunk.markdown) THEN chunk.markdown.value
    ELSE IF Truthy(chunk.text) THEN chunk.text.value
    ELSE IF Truthy(chunk.content) THEN chunk.content.value
    ELSE <<>>

\* safely_get_text of a dictionary: the first of text, markdown, content that is set
safely_get_text(item) ==
    IF Truthy(item.text) \/ Truthy(item.markdown) \/ Truthy(item.content)
    THEN normalize_chunk_text(IF Truthy(item.text) THEN item.text.value
                              ELSE IF Truthy(item.markdown) THEN item.markdown.value
                              ELSE item.content.value)
    ELSE <<>>

(***************************************************************************)
(* Metrics                                                                 *)
(***************************************************************************)
\* the metric entry appended: source is set only when it is given and not empty
MetricEntry(name, value, source) ==
    [name |-> name, value |-> value[1], unit |-> "USD", period |-> "Current Period",
     source |-> IF source # None /\ source[1] # <<>> THEN source ELSE None]

\* append_metric comparing the names as they are written
append_metric_exact_name(fd, name, value, source) ==
    IF value = None THEN fd
    ELSE IF \E i \in 1..Len(fd.key_metrics) : fd.key_metrics[i].name = name THEN fd
    ELSE [fd EXCEPT !.key_metrics = Append(@, MetricEntry(name, value, source))]

\* append_metric: no value, or a metric of that name in any letter case, adds nothing
append_metric(fd, name, value, source) ==
    IF value = None THEN fd
    ELSE IF \E i \in 1..Len(fd.key_metrics) : Lower(fd.key_metrics[i].name) = Lower(name)
         THEN fd
    ELSE [fd EXCEPT !.key_metrics = Append(@, MetricEntry(name, value, source))]

\* re.sub(r"^\d+[\.\)]?\s*", "", label.strip()), then .strip(":") and .strip()
clean_metric_label(label) ==
    LET stripped == Strip(label)
        d == FirstNotIn(stripped, 1, Digits)
        p == IF d > 1 /\ d <= Len(stripped) /\ stripped[d] \in {".", ")"} THEN d + 1 ELSE d
        q == IF d > 1 THEN FirstNotIn(stripped, p, Whitespace) ELSE 1
    IN  Strip(StripChars(Slice(stripped, q, Len(stripped)), {":"}))

\* list(header)[::-1]
Reverse(q) == [i \in 1..Len(q) |-> q[Len(q) + 1 - i]]

\* the first value of vals[k..] that is not None
RECURSIVE FirstSome(_, _)
FirstSome(vals, k) ==
    IF k > Len(vals) THEN None
    ELSE IF vals[k] # None THEN vals[k]
    ELSE FirstSome(vals, k + 1)

\* the columns in the order searched: the header reversed, then the other keys
SearchOrder(row, hdr) ==
    Reverse(hdr) \o SelectSeq(DictKeys(row), LAMBDA k : k \notin Range(hdr))

\* the number of the first cell, in the order given, that holds one
FirstNumberIn(row, search_order) ==
    FirstSome([i \in 1..Len(search_order) |->
                  extract_number_from_line(DictGet(row, search_order[i], <<>>))], 1)

first_numeric_value(row, hdr) ==
    IF row = <<>> THEN None ELSE FirstNumberIn(row, SearchOrder(row, hdr))

IMPORTANT_METRIC_KEYWORDS ==
    <<Str.total, Str.premium, Str.dividend, Str.balance, Str.fee, Str.asset, Str.liabil,
      Str.equity,
      Str.cash, Str.revenue, Str.income, Str.sales, Str.payment, Str.adjustment>>

\* any(keyword in s for keyword in keywords)
ContainsAny(s, keywords) == \E i \in 1..Len(keywords) : Contains(s, keywords[i])

\* the label of a row: the cell under the first header, else the first cell
RowLabel(row, hdr) ==
    IF hdr # <<>> /\ DictGet(row, hdr[1], <<>>) # <<>> THEN DictGet(row, hdr[1], <<>>)
    ELSE IF row # <<>> THEN row[1][2]
    ELSE <<>>

\* the statement field and the metric of a labelled value, with the rule of the
\* liabilities tried before the rule of the assets
ClassifyMetricLiabilitiesFirst(fd, cleaned_label, label_lower, value, source) ==
    IF Contains(label_lower, Str.liabil) /\ Contains(label_lower, Str.total)
    THEN append_metric([fd EXCEPT !.balance_sheet =
                                      DictPut(@, "total_liabilities", value[1])],
                       Str.Total_Liabilities, value, source)
    ELSE IF Contains(label_lower, Str.asset) /\ Contains(label_lower, Str.total)
    THEN append_metric([fd EXCEPT !.balance_sheet = DictPut(@, "total_assets", value[1])],
                       Str.Total_Assets, value, source)
    ELSE IF Contains(label_lower, Str.equity) /\ Contains(label_lower, Str.total)
    THEN append_metric([fd EXCEPT !.balance_sheet = DictPut(@, "total_equity", value[1])],
                       Str.Total_Equity, value, source)
    ELSE IF /\ Contains(label_lower, Str.cash)
            /\ (Contains(label_lower, Str.flow) \/ Contains(label_lower, Str.operating))
    THEN append_metric([fd EXCEPT !.cash_flow =
                                      DictPut(@, "operating_cash_flow", value[1])],
                       Str.Operating_Cash_Flow, value, source)
    ELSE IF \/ Contains(label_lower, Str.revenue)
            \/ Contains(label_lower, Str.sales)
            \/ Contains(label_lower, Str.income)
    THEN append_metric(
             [fd EXCEPT !.income_statement =
                 DictPut(@, "line_items",
                         DictPut(DictGet(@, "line_items", <<>>), cleaned_label, value[1]))],
             cleaned_label, value, source)
    ELSE append_metric(fd, cleaned_label, value, source)

\* lines 899-915: the statement field and the metric of a labelled value
ClassifyMetric(fd, cleaned_label, label_lower, value, source) ==
    IF Contains(label_lower, Str.asset) /\ Contains(label_lower, Str.total)
    THEN append_metric([fd EXCEPT !.balance_sheet = DictPut(@, "total_assets", value[1])],
                       Str.Total_Assets, value, source)
    ELSE IF Contains(label_lower, Str.liabil) /\ Contains(label_lower, Str.total)
    THEN append_metric([fd EXCEPT !.balance_sheet =
                                      DictPut(@, "total_liabilities", value[1])],
                       Str.Total_Liabilities, value, source)
    ELSE IF Contains(label_lower, Str.equity) /\ Contains(label_lower, Str.total)
    THEN append_metric([fd EXCEPT !.balance_sheet = DictPut(@, "total_equity", value[1])],
                       Str.Total_Equity, value, source)
    ELSE IF /\ Contains(label_lower, Str.cash)
            /\ (Contains(label_lower, Str.flow) \/ Contains(label_lower, Str.operating))
    THEN append_metric([fd EXCEPT !.cash_flow =
                                      DictPut(@, "operating_cash_flow", value[1])],
                       Str.Operating_Cash_Flow, value, source)
    ELSE IF \/ Contains(label_lower, Str.revenue)
            \/ Contains(label_lower, Str.sales)
            \/ Contains(label_lower, Str.income)
    THEN append_metric(
             [fd EXCEPT !.income_statement =
                 DictPut(@, "line_items",
                         DictPut(DictGet(@, "line_items", <<>>), cleaned_label, value[1]))],
             cleaned_label, value, source)
    ELSE append_metric(fd, cleaned_label, value, source)

\* lines 889-897: the rows without a label, a keyword or a number add nothing
MetricOfRow(fd, cleaned_label, value, source) ==
    IF cleaned_label = <<>> THEN fd
    ELSE IF ~ContainsAny(Lower(cleaned_label), IMPORTANT_METRIC_KEYWORDS) THEN fd
    ELSE IF value = None THEN fd
    ELSE ClassifyMetric(fd, cleaned_label, Lower(cleaned_label), value, source)

RECURSIVE MetricsOfRows(_, _, _, _, _)
MetricsOfRows(fd, trows, hdr, source, k) ==
    IF k > Len(trows) THEN fd
    ELSE MetricsOfRows(MetricOfRow(fd, clean_metric_label(RowLabel(trows[k], hdr)),
                                   first_numeric_value(trows[k], hdr), source),
                       trows, hdr, source, k + 1)

\* the metrics of the rows of a table entry, with its title or else its id as source
extract_metrics_from_table_entry(table_entry, fd) ==
    MetricsOfRows(fd, table_entry.rows, table_entry.header,
                  Some(IF table_entry.title # <<>> THEN table_entry.title
                       ELSE table_entry.id), 1)

(***************************************************************************)
(* infer_table_title                                                       *)
(***************************************************************************)
\* the currency signs of the patterns at lines 859 and 870, one name per sign
EuroSign == "EUR"

PoundSign == "GBP"

YenSign == "JPY"

title_keywords ==
    <<Str.student_copy, Str.university_copy, Str.bank_copy, Str.fee_bill, Str.invoice,
      Str.receipt,
      Str.statement, Str.challan, Str.form>>

TitlePrefixes == <<Str.copy, Str.form, Str.bill, Str.statement, Str.invoice, Str.receipt>>

\* the class [\d\s,\$€£¥]
CurrencyChars == Digits \cup Whitespace \cup {",", "$", EuroSign, PoundSign, YenSign}

\* re.match(r"^\d+[\.\)]", s)
NumberedItem(s) ==
    LET d == FirstNotIn(s, 1, Digits)
    IN  d > 1 /\ d <= Len(s) /\ s[d] \in {".", ")"}

\* re.match(r"^[cs]+$", s) for a class cs
OnlyChars(s, cs) == s # <<>> /\ \A i \in 1..Len(s) : s[i] \in cs

\* a separator line of a pipe table: a pipe, and nothing else but dashes and colons
TableSeparator(s) ==
    Contains(s, <<"|">>) /\ Range(Strip(ReplaceChar(s, "|", <<>>))) \subseteq {"-", ":"}

\* re.sub(r"^(copy|form|bill|statement|invoice|receipt)[\s:]+", "", s, IGNORECASE)
StripTitlePrefix(s) ==
    LET ms == {i \in 1..Len(TitlePrefixes) :
                  /\ StartsAt(Lower(s), TitlePrefixes[i], 1)
                  /\ Len(s) > Len(TitlePrefixes[i])
                  /\ s[Len(TitlePrefixes[i]) + 1] \in Whitespace \cup {":"}}
    IN  IF ms = {} THEN s
        ELSE Slice(s, FirstNotIn(s, Len(TitlePrefixes[CHOOSE i \in ms : TRUE]) + 1,
                                 Whitespace \cup {":"}), Len(s))

\* lines 849-865: the title the first loop returns at a line, None when it goes on
TitleOfLine(stripped) ==
    IF \/ stripped = <<>>
       \/ TableSeparator(stripped)
       \/ NumberedItem(stripped)
       \/ OnlyChars(stripped, CurrencyChars)
    THEN None
    ELSE IF ContainsAny(Lower(stripped), title_keywords) \/ Len(stripped) > 5
    THEN Some(IF StripTitlePrefix(stripped) # <<>>
              THEN Slice(StripTitlePrefix(stripped), 1, 120)
              ELSE Slice(stripped, 1, 120))
    ELSE None

\* lines 868-871: the title the second loop returns at a line
FallbackTitleOfLine(stripped) ==
    IF /\ stripped # <<>>
       /\ ~Contains(stripped, <<"|">>)
       /\ ~OnlyChars(stripped, CurrencyChars \cup {"-", ":"})
    THEN Some(Slice(stripped, 1, 120))
    ELSE None

\* the first loop over lines[:10], the second over lines[:15], then "Table"
TitleFrom(lines, first) ==
    IF first # None THEN first[1]
    ELSE LET second == FirstSome([i \in 1..Min(Len(lines), 15) |->
                                     FallbackTitleOfLine(Strip(lines[i]))], 1)
         IN  IF second # None THEN second[1] ELSE Str.Table

TitleOfLines(lines) ==
    TitleFrom(lines, FirstSome([i \in 1..Min(Len(lines), 10) |->
                                   TitleOfLine(Strip(lines[i]))], 1))

infer_table_title(raw) == TitleOfLines(SplitOn(normalize_chunk_text(raw), "\n", 1))

(***************************************************************************)
(* The statement sections and the fallback extraction                      *)
(***************************************************************************)
\* financial_data[bucket][key] = n and the metric of that name, when a number was found
SetStatementValue(fd, bucket, key, name, n) ==
    IF n = None THEN fd
    ELSE append_metric([fd EXCEPT ![bucket] = DictPut(@, key, n[1])], name, n, None)

\* lines 1184-1203: one line of extract_income_statement
IncomeLine(fd, line_lower, n) ==
    IF Contains(line_lower, Str.revenue) \/ Contains(line_lower, Str.sales)
    THEN SetStatementValue(fd, "income_statement", "revenue", Str.Revenue, n)
    ELSE IF ContainsAny(line_lower, <<Str.net_income, Str.net_profit, Str.net_earnings>>)
    THEN SetStatementValue(fd, "income_statement", "net_income", Str.Net_Income, n)
    ELSE IF ContainsAny(line_lower, <<Str.gross_profit, Str.gross_margin>>)
    THEN SetStatementValue(fd, "income_statement", "gross_profit", Str.Gross_Profit, n)
    ELSE fd

\* lines 1215-1234: one line of extract_balance_sheet
BalanceLine(fd, line_lower, n) ==
    IF Contains(line_lower, Str.total_assets)
    THEN SetStatementValue(fd, "balance_sheet", "total_assets", Str.Total_Assets, n)
    ELSE IF Contains(line_lower, Str.total_liabilities)
    THEN SetStatementValue(fd, "balance_sheet", "total_liabilities",
                           Str.Total_Liabilities, n)
    ELSE IF ContainsAny(line_lower, <<Str.total_equity, Str.shareholders__equity>>)
    THEN SetStatementValue(fd, "balance_sheet", "total_equity", Str.Total_Equity, n)
    ELSE fd

\* lines 1246-1265: one line of extract_cash_flow
CashFlowLine(fd, line_lower, n) ==
    IF ContainsAny(line_lower, <<Str.operating_activities, Str.cash_flow_from_operations>>)
    THEN SetStatementValue(fd, "cash_flow", "operating_cash_flow",
                           Str.Operating_Cash_Flow, n)
    ELSE IF ContainsAny(line_lower, <<Str.investing_activities, Str.cash_flow_from_investing>>)
    THEN SetStatementValue(fd, "cash_flow", "investing_cash_flow",
                           Str.Investing_Cash_Flow, n)
    ELSE IF ContainsAny(line_lower, <<Str.financing_activities, Str.cash_flow_from_financing>>)
    THEN SetStatementValue(fd, "cash_flow", "financing_cash_flow",
                           Str.Financing_Cash_Flow, n)
    ELSE fd

StatementLine(fd, statement, line_lower, n) ==
    IF statement = "income_statement" THEN IncomeLine(fd, line_lower, n)
    ELSE IF statement = "balance_sheet" THEN BalanceLine(fd, line_lower, n)
    ELSE CashFlowLine(fd, line_lower, n)

\* the loop over the lines of the table text of a statement function
RECURSIVE StatementLines(_, _, _, _)
StatementLines(fd, statement, lines, k) ==
    IF k > Len(lines) THEN fd
    ELSE StatementLines(StatementLine(fd, statement, Lower(lines[k]),
                                      extract_number_from_line(lines[k])),
                        statement, lines, k + 1)

extract_income_statement(table_text, fd) ==
    StatementLines(fd, "income_statement", SplitOn(table_text, "\n", 1), 1)

extract_balance_sheet(table_text, fd) ==
    StatementLines(fd, "balance_sheet", SplitOn(table_text, "\n", 1), 1)

extract_cash_flow(table_text, fd) ==
    StatementLines(fd, "cash_flow", SplitOn(table_text, "\n", 1), 1)

\* the number of the first line holding a keyword and a number
MetricInLines(lines, keywords) ==
    FirstSome([i \in 1..Len(lines) |->
                  IF ContainsAny(lines[i], keywords)
                  THEN extract_number_from_line(lines[i])
                  ELSE None], 1)

extract_metric(txt, keywords) == MetricInLines(SplitOn(Lower(txt), "\n", 1), keywords)

\* lines 1107-1128: the metrics looked for in the text of the document
FallbackMetrics ==
    <<[keywords |-> <<Str.revenue, Str.net_sales, Str.total_revenue>>,
       name |-> Str.Revenue, bucket |-> "income_statement", key |-> "revenue"],
      [keywords |-> <<Str.net_income, Str.net_earnings, Str.net_profit>>,
       name |-> Str.Net_Income, bucket |-> "income_statement", key |-> "net_income"],
      [keywords |-> <<Str.total_assets>>,
       name |-> Str.Total_Assets, bucket |-> "balance_sheet", key |-> "total_assets"],
      [keywords |-> <<Str.cash_flow_from_operations, Str.operating_cash_flow,
                      Str.net_cash_provided_by_operating_activities>>,
       name |-> Str.Operating_Cash_Flow, bucket |-> "cash_flow",
       key |-> "operating_cash_flow"]>>

\* a value found is stored in its statement and no metric is appended
FallbackMetricStatementOnly(fd, m, n) ==
    IF n = None \/ n[1] = 0 THEN fd
    ELSE [fd EXCEPT ![m.bucket] = DictPut(@, m.key, n[1])]

\* a value found and not zero is appended as a metric and stored in its statement
FallbackMetric(fd, m, n) ==
    IF n = None \/ n[1] = 0 THEN fd
    ELSE [append_metric(fd, m.name, n, None) EXCEPT ![m.bucket] = DictPut(@, m.key, n[1])]

RECURSIVE FallbackFrom(_, _, _)
FallbackFrom(fd, txt, k) ==
    IF k > Len(FallbackMetrics) THEN fd
    ELSE FallbackFrom(FallbackMetric(fd, FallbackMetrics[k],
                                     extract_metric(txt, FallbackMetrics[k].keywords)),
                      txt, k + 1)

\* lines 1131-1133: the fee amount of the text of the document
FeeMetric(fd, fee_amount) ==
    IF /\ fee_amount # None
       /\ fee_amount[1] # 0
       /\ ~\E i \in 1..Len(fd.key_metrics) : Lower(fd.key_metrics[i].name) = Str.fee_amount
    THEN append_metric(fd, Str.Fee_Amount, fee_amount, None)
    ELSE fd

\* the document type named by the text, with fee and payment tried before invoice
DocumentTypeOfFeeFirst(pdf_lower) ==
    IF Contains(pdf_lower, Str.fee) \/ Contains(pdf_lower, Str.payment)
    THEN Some(Str.Fee_Document)
    ELSE IF Contains(pdf_lower, Str.invoice) THEN Some(Str.Invoice)
    ELSE IF Contains(pdf_lower, Str.statement) /\ Contains(pdf_lower, Str.financial)
    THEN Some(Str.Financial_Statement)
    ELSE IF Contains(pdf_lower, Str.balance_sheet) THEN Some(Str.Balance_Sheet)
    ELSE IF Contains(pdf_lower,
                     Str.income_statement) \/ Contains(pdf_lower, Str.profit_and_loss)
    THEN Some(Str.Income_Statement)
    ELSE IF Contains(pdf_lower, Str.cash_flow) THEN Some(Str.Cash_Flow_Statement)
    ELSE IF Contains(pdf_lower, Str.receipt) THEN Some(Str.Receipt)
    ELSE IF Contains(pdf_lower, Str.report) THEN Some(Str.Financial_Report)
    ELSE None

\* lines 1139-1154: the document type named by the text of the document
DocumentTypeOf(pdf_lower) ==
    IF Contains(pdf_lower, Str.invoice) THEN Some(Str.Invoice)
    ELSE IF Contains(pdf_lower, Str.fee) \/ Contains(pdf_lower, Str.payment)
    THEN Some(Str.Fee_Document)
    ELSE IF Contains(pdf_lower, Str.statement) /\ Contains(pdf_lower, Str.financial)
    THEN Some(Str.Financial_Statement)
    ELSE IF Contains(pdf_lower, Str.balance_sheet) THEN Some(Str.Balance_Sheet)
    ELSE IF Contains(pdf_lower,
                     Str.income_statement) \/ Contains(pdf_lower, Str.profit_and_loss)
    THEN Some(Str.Income_Statement)
    ELSE IF Contains(pdf_lower, Str.cash_flow) THEN Some(Str.Cash_Flow_Statement)
    ELSE IF Contains(pdf_lower, Str.receipt) THEN Some(Str.Receipt)
    ELSE IF Contains(pdf_lower, Str.report) THEN Some(Str.Financial_Report)
    ELSE None

(***************************************************************************)
(* map_to_financial_schema: the passes                                     *)
(***************************************************************************)
S_tableEnd == <<"<", "/", "t", "a", "b", "l", "e", ">">>

\* lines 927-938: the record the function starts from
InitialData ==
    [metadata |-> [company_name |-> Str.Unknown_Company,
                   document_date |-> Str.Unknown_Date,
                   document_type |-> Str.Document],
     income_statement |-> <<>>, balance_sheet |-> <<>>, cash_flow |-> <<>>,
     key_metrics |-> <<>>, tables |-> <<>>]

\* lines 1163-1174: the record returned by the exception handler
ErrorData ==
    [metadata |-> [company_name |-> Str.Error_Mapping_Schema,
                   document_date |-> Str.Unknown,
                   document_type |-> Str.Unknown],
     income_statement |-> <<>>, balance_sheet |-> <<>>, cash_flow |-> <<>>,
     key_metrics |-> <<>>, summary |-> Str.Error_mapping_financial_schema]

\* lines 945-953: the metadata of the response, a dictionary
MetadataFrom(fd, metadata) ==
    [fd EXCEPT
        !.metadata.company_name =
            IF @ = Str.Unknown_Company /\ DictHas(metadata, "company_name")
            THEN DictGet(metadata, "company_name", @) ELSE @,
        !.metadata.document_date =
            IF @ = Str.Unknown_Date /\ DictHas(metadata, "document_date")
            THEN DictGet(metadata, "document_date", @) ELSE @,
        !.metadata.document_type = DictGet(metadata, "document_type", @)]

\* lines 973-978: the first line of a chunk that names a company
CompanyNameIn(chunk_text, lines) ==
    IF ContainsAny(Lower(chunk_text), <<Str.company, Str.corporation, Str.inc>>)
    THEN FirstSome([i \in 1..Len(lines) |->
                       IF /\ Len(Strip(lines[i])) > 5
                          /\ ContainsAny(Lower(Strip(lines[i])),
                                         <<Str.inc, Str.corp, Str.ltd, Str.llc>>)
                       THEN Some(Strip(lines[i]))
                       ELSE None], 1)
    ELSE None

\* lines 982-986: the first line of a chunk that names a period
DocumentDateIn(chunk_text, lines) ==
    IF ContainsAny(Lower(chunk_text), <<Str.date, Str.period, Str.quarter>>)
    THEN FirstSome([i \in 1..Len(lines) |->
                       IF /\ ContainsAny(Lower(lines[i]), <<Str.quarter, Str.period>>)
                          /\ ContainsAny(Lower(lines[i]), <<Str.ended, Str.ending>>)
                       THEN Some(lines[i])
                       ELSE None], 1)
    ELSE None

\* the first pass over one chunk taking the company and the period of every chunk
ScanMetadataOverwriting(fd, chunk_text, company, date) ==
    IF chunk_text = <<>> THEN fd
    ELSE [fd EXCEPT
             !.metadata.company_name = IF company # None THEN company[1] ELSE @,
             !.metadata.document_date = IF date # None THEN date[1] ELSE @]

\* lines 968-986: the first pass over one chunk
ScanMetadata(fd, chunk_text, company, date) ==
    IF chunk_text = <<>> THEN fd
    ELSE [fd EXCEPT
             !.metadata.company_name =
                 IF @ = Str.Unknown_Company /\ company # None THEN company[1] ELSE @,
             !.metadata.document_date =
                 IF @ = Str.Unknown_Date /\ date # None THEN date[1] ELSE @]

\* chunk.get("type", "").lower() of a chunk whose type is not null
ChunkType(chunk) == IF chunk.type.kind = "value" THEN Lower(chunk.type.value) ELSE <<>>

\* chunk.get("id", "")
ChunkId(chunk) == IF chunk.id.kind = "value" THEN chunk.id.value ELSE <<>>

\* chunk.get("grounding", {}).get(key) of a chunk whose grounding is not null
GroundingGet(chunk, key) ==
    IF chunk.grounding.kind = "value" /\ DictHas(chunk.grounding.value, key)
    THEN Some(DictGet(chunk.grounding.value, key, 0))
    ELSE None

\* the table entry appended, and the metrics of its rows when it has rows
WithTable(fd, table_entry) ==
    IF table_entry.rows # <<>>
    THEN extract_metrics_from_table_entry(table_entry,
                                          [fd EXCEPT !.tables = Append(@, table_entry)])
    ELSE [fd EXCEPT !.tables = Append(@, table_entry)]

\* the outcome of one chunk: the data, the ids seen, whether an exception was raised,
\* and whether the loop went on to the next chunk at line 1033
ChunkOutcome(fd, ids, raised, skipped) ==
    [fd |-> fd, ids |-> ids, raised |-> raised, skipped |-> skipped]

\* lines 1029-1050: a table was parsed from the chunk
AddChunkTable(fd, ids, chunk, raw, chunk_text, parsed, table_id) ==
    IF table_id \in ids THEN ChunkOutcome(fd, ids, FALSE, TRUE)
    ELSE IF chunk.grounding.kind = "null"
    THEN ChunkOutcome(fd, ids \cup {table_id}, TRUE, FALSE)
    ELSE ChunkOutcome(
             WithTable(fd, [id |-> table_id,
                            title |-> infer_table_title(IF raw # <<>> THEN raw
                                                        ELSE chunk_text),
                            header |-> parsed.header,
                            rows |-> parsed.rows,
                            page |-> GroundingGet(chunk, "page"),
                            box |-> GroundingGet(chunk, "box"),
                            type |-> IF ChunkType(chunk) # <<>> THEN ChunkType(chunk)
                                     ELSE S_table]),
             ids \cup {table_id}, FALSE, FALSE)

\* lines 1053-1058: the statement section named in the text of the chunk
StatementOf(fd, chunk_text, chunk_text_lower) ==
    IF ContainsAny(chunk_text_lower,
                   <<Str.income_statement, Str.statement_of_operations, Str.profit_and_loss>>)
    THEN extract_income_statement(chunk_text, fd)
    ELSE IF ContainsAny(chunk_text_lower,
                        <<Str.balance_sheet, Str.financial_position, Str.assets,
                          Str.liabilities>>)
    THEN extract_balance_sheet(chunk_text, fd)
    ELSE IF ContainsAny(chunk_text_lower,
                        <<Str.cash_flow, Str.statement_of_cash_flows,
                          Str.operating_activities>>)
    THEN extract_cash_flow(chunk_text, fd)
    ELSE fd

StatementCheck(out, chunk_text) ==
    IF out.raised \/ out.skipped THEN out
    ELSE [out EXCEPT !.fd = StatementOf(@, chunk_text, Lower(chunk_text))]

\* lines 1019-1058: a chunk that looks like a table
TableChunk(fd, ids, chunk, raw, chunk_text, parsed) ==
    StatementCheck(
        IF parsed.header # <<>> \/ parsed.rows # <<>>
        THEN AddChunkTable(fd, ids, chunk, raw, chunk_text, parsed,
                           IF ChunkId(chunk) # <<>> THEN ChunkId(chunk)
                           ELSE Str.table_ \o IntToStr(Len(fd.tables)))
        ELSE ChunkOutcome(fd, ids, FALSE, FALSE),
        chunk_text)

\* lines 1013-1015: the type is table, or the raw text has a table tag or a pipe
looks_like_table(chunk, raw) ==
    \/ ChunkType(chunk) = S_table
    \/ Contains(Lower(raw), S_tableTag)
    \/ Contains(raw, <<"|">>)

\* lines 995-1058: the second pass over one chunk; a null type raises at line 1002
ChunkPass(fd, ids, chunk, raw, chunk_text) ==
    IF chunk.type.kind = "null" THEN ChunkOutcome(fd, ids, TRUE, FALSE)
    ELSE IF chunk_text = <<>> /\ raw = <<>> THEN ChunkOutcome(fd, ids, FALSE, TRUE)
    ELSE IF looks_like_table(chunk, raw)
    THEN TableChunk(fd, ids, chunk, raw, chunk_text, parse_table_rows(raw, chunk_text))
    ELSE ChunkOutcome(fd, ids, FALSE, FALSE)

\* str.find(k, i): the first index from i on where k starts, 0 when there is none
IndexOf(s, k, i) ==
    IF \E j \in i..Len(s) : StartsAt(s, k, j)
    THEN CHOOSE j \in i..Len(s) : StartsAt(s, k, j) /\ \A m \in i..(j - 1) : ~StartsAt(s, k, m)
    ELSE 0

\* the end of the table element that opens at a: its closing tag, else the end of s
TableEnd(s, e) == IF e = 0 THEN Len(s) ELSE e + Len(S_tableEnd) - 1

\* soup.find_all("table") of markup whose tables are not nested: the markup of each
\* table element from index i on
RECURSIVE TableMarkups(_, _)
TableMarkups(s, i) ==
    IF IndexOf(Lower(s), S_tableTag, i) = 0 THEN <<>>
    ELSE <<Slice(s, IndexOf(Lower(s), S_tableTag, i),
                 TableEnd(s, IndexOf(Lower(s), S_tableEnd,
                                     IndexOf(Lower(s), S_tableTag, i))))>>
         \o TableMarkups(s, TableEnd(s, IndexOf(Lower(s), S_tableEnd,
                                                IndexOf(Lower(s), S_tableTag, i))) + 1)

\* str(html_table) and html_table.get_text(" ", strip=True) of each table element
find_all_tables(markups) ==
    [i \in 1..Len(markups) |->
        [table_html |-> markups[i], table_text |-> BeautifulSoup(markups[i]).table_text]]

\* lines 1075-1091: one table of the full markdown, st being the data and the ids seen
MarkdownTable(st, table_id, table_text, parsed) ==
    IF parsed.header = <<>> /\ parsed.rows = <<>> THEN st
    ELSE IF table_id \in st.ids THEN st
    ELSE [fd |-> WithTable(st.fd, [id |-> table_id,
                                   title |-> infer_table_title(table_text),
                                   header |-> parsed.header,
                                   rows |-> parsed.rows,
                                   page |-> None,
                                   box |-> None,
                                   type |-> Str.markdown_table]),
          ids |-> st.ids \cup {table_id}]

\* lines 1069-1091: the loop over the tables of the full markdown
RECURSIVE MarkdownTables(_, _, _)
MarkdownTables(st, all_tables, table_idx) ==
    IF table_idx >= Len(all_tables) THEN st
    ELSE MarkdownTables(
             MarkdownTable(st, Str.full_markdown_table_ \o IntToStr(table_idx),
                           all_tables[table_idx + 1].table_text,
                           parse_table_rows(all_tables[table_idx + 1].table_html,
                                            all_tables[table_idx + 1].table_text)),
             all_tables, table_idx + 1)

\* lines 1062-1093: the pass over the full markdown of the response
MarkdownPass(st, full_markdown) ==
    IF Truthy(full_markdown) /\ BS4_AVAILABLE /\ Contains(Lower(full_markdown.value),
                                                          S_tableTag)
    THEN MarkdownTables(st, find_all_tables(TableMarkups(full_markdown.value, 1)), 0)
    ELSE st

(***************************************************************************)
(* Inputs of map_to_financial_schema                                       *)
(***************************************************************************)
AssetsMarkup ==
    <<"<", "t", "a", "b", "l", "e", ">", "<", "t", "r", ">", "<", "t", "h", ">", "I", "t", "e",
      "m", "<", "/", "t", "h", ">", "<", "t", "h", ">", "A", "m", "o", "u", "n", "t", "<", "/",
      "t", "h", ">", "<", "/", "t", "r", ">", "<", "t", "r", ">", "<", "t", "d", ">", "T", "o",
      "t", "a", "l", " ", "A", "s", "s", "e", "t", "s", "<", "/", "t", "d", ">", "<", "t", "d",
      ">", "1", ",", "0", "0", "0", ",", "0", "0", "0", "<", "/", "t", "d", ">", "<", "/", "t",
      "r", ">", "<", "/", "t", "a", "b", "l", "e", ">">>

Chunk(markdown, txt, type, id, grounding) ==
    [markdown |-> markdown, text |-> txt, content |-> Missing, type |-> type, id |-> id,
     grounding |-> grounding]

\* a table chunk with an id and a page
ChunkAssets ==
    Chunk(Field(AssetsMarkup), Missing, Field(Str.table), Field(Str.c1),
          Field(<<<<"page", 1>>>>))

\* the same table in a text chunk without id, type-independent detection by its tag
ChunkAssetsText == Chunk(Field(AssetsMarkup), Missing, Field(Str.text), Missing, Missing)

\* a text chunk without id that holds a pipe table under a statement heading
ChunkRevenue ==
    Chunk(Field(<<"I", "n", "c", "o", "m", "e", " ", "S", "t", "a", "t", "e", "m", "e", "n",
                  "t", "\n", "I", "t", "e", "m", " ", "|", " ", "A", "m", "o", "u", "n", "t",
                  "\n", "R", "E", "V", "E", "N", "U", "E", " ", "|", " ", "5", ",", "0", "0",
                  "0">>), Missing,
          Field(Str.text), Missing, Missing)

\* a chunk whose type is null
ChunkNullType ==
    Chunk(Field(<<"I", "t", "e", "m", " ", "|", " ", "A", "m", "o", "u", "n", "t", "\n", "T",
                  "o", "t", "a", "l", " ", "E", "q", "u", "i", "t", "y", " ", "|", " ", "2",
                  ",", "0", "0", "0">>), Missing, Null, Field(Str.c2), Missing)

\* a table chunk whose grounding is null
ChunkNullGrounding ==
    Chunk(Field(<<"I", "t", "e", "m", " ", "|", " ", "A", "m", "o", "u", "n", "t", "\n", "T",
                  "o", "t", "a", "l", " ", "L", "i", "a", "b", "i", "l", "i", "t", "i", "e",
                  "s", " ", "|", " ", "3", ",", "0", "0", "0">>), Missing, Field(Str.table),
          Field(Str.c3), Null)

\* a text chunk that names the company and the period
ChunkCompany ==
    Chunk(Missing, Field(<<"A", "c", "m", "e", " ", "C", "o", "r", "p", " ", "I", "n", "c",
                           "\n", "Q", "u", "a", "r", "t", "e", "r", " ", "e", "n", "d", "e",
                           "d", " ", "M", "a", "r", "c", "h">>), Field(Str.text), Field(Str.c4),
          Missing)

\* a table chunk whose only cell has a column span that is not a number: no table is
\* parsed from it, and its text has a line of the balance sheet
ChunkBadSpan ==
    Chunk(Field(<<"<", "t", "a", "b", "l", "e", ">", "<", "t", "r", ">", "<", "t", "d", " ",
                  "c", "o", "l", "s", "p", "a", "n", "=", "\"", "x", "\"", ">", "T", "o", "t",
                  "a", "l", " ", "A", "s", "s", "e", "t", "s", " ", "5", ",", "0", "0", "0",
                  "<", "/", "t", "d", ">", "<", "/", "t", "r", ">", "<", "/", "t", "a", "b",
                  "l", "e", ">">>), Missing,
          Field(Str.table), Field(Str.c5), Missing)

\* a plain text chunk of a balance sheet: no table type, no table tag, no pipe
ChunkBalanceText ==
    Chunk(Missing, Field(<<"B", "a", "l", "a", "n", "c", "e", " ", "S", "h", "e", "e", "t",
                           "\n", "T", "o", "t", "a", "l", " ", "A", "s", "s", "e", "t", "s",
                           " ", "5", ",", "0", "0", "0">>), Field(Str.text), Field(Str.c6),
          Missing)

ChunkChoices ==
    {ChunkAssets, ChunkAssetsText, ChunkRevenue, ChunkNullType, ChunkNullGrounding,
     ChunkCompany, ChunkBadSpan, ChunkBalanceText}

MaxChunks == 2

MetadataChoices ==
    {Missing, Field(<<<<"company_name", Str.Acme_Ltd>>, <<"document_type", Str.Report>>>>)}

\* a full markdown with two tables, the second with a row of three cells under a
\* header of two
WideRowMarkup ==
    <<"<", "t", "a", "b", "l", "e", ">", "<", "t", "r", ">", "<", "t", "h", ">", "I", "t", "e",
      "m", "<", "/", "t", "h", ">", "<", "t", "h", ">", "A", "m", "o", "u", "n", "t", "<", "/",
      "t", "h", ">", "<", "/", "t", "r", ">", "<", "t", "r", ">", "<", "t", "d", ">", "T", "o",
      "t", "a", "l", " ", "E", "q", "u", "i", "t", "y", "<", "/", "t", "d", ">", "<", "t", "d",
      ">", "2", ",", "0", "0", "0", "<", "/", "t", "d", ">", "<", "t", "d", ">", "3", ",", "0",
      "0", "0", "<", "/", "t", "d", ">", "<", "/", "t", "r", ">", "<", "/", "t", "a", "b", "l",
      "e", ">">>

TwoTablesMarkup == AssetsMarkup \o <<"\n">> \o WideRowMarkup

MarkdownChoices == {Missing, Field(AssetsMarkup), Field(TwoTablesMarkup)}

PdfTexts == {<<>>, <<"I", "n", "v", "o", "i", "c", "e", "\n", "T", "o", "t", "a", "l", " ", "F",
                     "e", "e", " ", "5", "0", "0", "\n", "N", "e", "t", " ", "S", "a", "l", "e",
                     "s", " ", "9", ",", "0", "0", "0">>}

\* the responses with at most n chunks, and three with a null or missing part
Responses(n) ==
    {[metadata |-> m, chunks |-> Field(q), markdown |-> md] :
        m \in MetadataChoices, q \in SeqsUpTo(ChunkChoices, n), md \in MarkdownChoices}
    \cup {[metadata |-> Null, chunks |-> Field(<<ChunkAssets>>), markdown |-> Missing],
          [metadata |-> Missing, chunks |-> Null, markdown |-> Missing],
          [metadata |-> Missing, chunks |-> Missing, markdown |-> Field(AssetsMarkup)]}

(***************************************************************************)
(* Specification Spec: one call of map_to_financial_schema                 *)
(***************************************************************************)
Init ==
    /\ pc = "init"
    /\ ade_response \in Responses(MaxChunks)
    /\ pdf_text \in PdfTexts
    /\ financial_data = InitialData
    /\ processed_table_ids = {}
    /\ chunk_index = 0
    /\ result = <<>>
    /\ NormIdle
    /\ NumIdle
    /\ TaskIdle
    /\ ParseIdle

\* the pass that follows the chunk at chunk_index, or the next chunk of this pass
NextChunk(pass, following) ==
    IF chunk_index < Len(ade_response.chunks.value)
    THEN pc' = pass /\ chunk_index' = chunk_index + 1
    ELSE pc' = following /\ chunk_index' = 1

\* lines 941-959: the metadata of the response, then the chunks if there are any
ReadMetadata ==
    /\ pc = "init"
    /\ IF ade_response.metadata.kind = "null"
       THEN pc' = "except" /\ UNCHANGED <<financial_data, chunk_index>>
       ELSE /\ financial_data' =
                  IF ade_response.metadata.kind = "value"
                  THEN MetadataFrom(financial_data, ade_response.metadata.value)
                  ELSE financial_data
            /\ chunk_index' = 1
            /\ pc' = IF ade_response.chunks.kind = "missing" THEN "fallback"
                     ELSE IF ade_response.chunks.kind = "null" THEN "except"
                     ELSE IF ade_response.chunks.value = <<>> THEN "full_markdown"
                     ELSE "metadata_scan"
    /\ UNCHANGED <<ade_response, pdf_text, processed_table_ids, result>>
    /\ UNCHANGED <<normVars, numVars, parseVars, taskVars>>

ScanChunkText(chunk_text) ==
    financial_data' =
        ScanMetadata(financial_data, chunk_text,
                     CompanyNameIn(chunk_text, SplitOn(chunk_text, "\n", 1)),
                     DocumentDateIn(chunk_text, SplitOn(chunk_text, "\n", 1)))

\* lines 962-986: the first pass, one chunk per step
ScanChunk ==
    /\ pc = "metadata_scan"
    /\ ScanChunkText(safely_get_text(ade_response.chunks.value[chunk_index]))
    /\ NextChunk("metadata_scan", "chunk_pass")
    /\ UNCHANGED <<ade_response, pdf_text, processed_table_ids, result>>
    /\ UNCHANGED <<normVars, numVars, parseVars, taskVars>>

ChunkDone(out) ==
    /\ financial_data' = out.fd
    /\ processed_table_ids' = out.ids
    /\ IF out.raised
       THEN pc' = "except" /\ UNCHANGED chunk_index
       ELSE NextChunk("chunk_pass", "full_markdown")

\* lines 994-1058: the second pass, one chunk per step
ProcessChunk ==
    /\ pc = "chunk_pass"
    /\ ChunkDone(ChunkPass(financial_data, processed_table_ids,
                           ade_response.chunks.value[chunk_index],
                           RawChunkText(ade_response.chunks.value[chunk_index]),
                           safely_get_text(ade_response.chunks.value[chunk_index])))
    /\ UNCHANGED <<ade_response, pdf_text, result>>
    /\ UNCHANGED <<normVars, numVars, parseVars, taskVars>>

MarkdownDone(st) ==
    /\ financial_data' = st.fd
    /\ processed_table_ids' = st.ids

\* lines 1062-1093: the tables of the full markdown
FullMarkdownPass ==
    /\ pc = "full_markdown"
    /\ MarkdownDone(MarkdownPass([fd |-> financial_data, ids |-> processed_table_ids],
                                 ade_response.markdown))
    /\ pc' = "fallback"
    /\ UNCHANGED <<ade_response, pdf_text, chunk_index, result>>
    /\ UNCHANGED <<normVars, numVars, parseVars, taskVars>>

\* the metrics of the text of the document, whatever the passes before found
FallbackPassUngated ==
    /\ pc = "fallback"
    /\ financial_data' = FallbackFrom(financial_data, pdf_text, 1)
    /\ pc' = "fee_amount"
    /\ UNCHANGED <<ade_response, pdf_text, processed_table_ids, chunk_index, result>>
    /\ UNCHANGED <<normVars, numVars, parseVars, taskVars>>

\* lines 1105-1128: the metrics of the text of the document, when no statement was found
FallbackPass ==
    /\ pc = "fallback"
    /\ financial_data' =
           IF financial_data.income_statement = <<>> /\ financial_data.balance_sheet = <<>>
           THEN FallbackFrom(financial_data, pdf_text, 1)
           ELSE financial_data
    /\ pc' = "fee_amount"
    /\ UNCHANGED <<ade_response, pdf_text, processed_table_ids, chunk_index, result>>
    /\ UNCHANGED <<normVars, numVars, parseVars, taskVars>>

\* lines 1131-1133
FeeAmount ==
    /\ pc = "fee_amount"
    /\ financial_data' =
           FeeMetric(financial_data,
                     extract_metric(pdf_text, <<Str.fee, Str.total_fee, Str.amount,
                                                Str.total_amount, Str.payment>>))
    /\ pc' = "document_type"
    /\ UNCHANGED <<ade_response, pdf_text, processed_table_ids, chunk_index, result>>
    /\ UNCHANGED <<normVars, numVars, parseVars, taskVars>>

Returned(fd) == financial_data' = fd /\ result' = fd

\* lines 1137-1156: the document type of the text, and the return
InferDocumentType ==
    /\ pc = "document_type"
    /\ Returned(IF /\ financial_data.metadata.document_type = Str.Document
                   /\ DocumentTypeOf(Lower(pdf_text)) # None
                THEN [financial_data EXCEPT
                         !.metadata.document_type = DocumentTypeOf(Lower(pdf_text))[1]]
                ELSE financial_data)
    /\ pc' = "done"
    /\ UNCHANGED <<ade_response, pdf_text, processed_table_ids, chunk_index>>
    /\ UNCHANGED <<normVars, numVars, parseVars, taskVars>>

\* lines 1158-1174: any exception of the passes ends the call with the error record
HandleException ==
    /\ pc = "except"
    /\ result' = ErrorData
    /\ pc' = "done"
    /\ UNCHANGED <<ade_response, pdf_text, financial_data, processed_table_ids, chunk_index>>
    /\ UNCHANGED <<normVars, numVars, parseVars, taskVars>>

Next ==
    \/ ReadMetadata
    \/ ScanChunk
    \/ ProcessChunk
    \/ FullMarkdownPass
    \/ FallbackPass
    \/ FeeAmount
    \/ InferDocumentType
    \/ HandleException

Spec == Init /\ [][Next]_vars

\* the call returned the record it built
ReturnedData == pc = "done" /\ "tables" \in DOMAIN result

\* the chunks of the response, when it has a list of chunks
Chunks == IF ade_response.chunks.kind = "value" THEN ade_response.chunks.value ELSE <<>>

UniqueMetricNames(metrics) ==
    \A i, j \in 1..Len(metrics) :
        i # j => Lower(metrics[i].name) # Lower(metrics[j].name)

\* C3: at every step of a mapping run, and in the record returned, no two entries
\* of key_metrics have the same name when letter case is ignored.
MetricUniqueness ==
    /\ UniqueMetricNames(financial_data.key_metrics)
    /\ pc = "done" => UniqueMetricNames(result.key_metrics)

\* A run where a table row added the metric REVENUE and the income statement
\* section of the same chunk then found a revenue line and offered "Revenue".
MetricUniquenessWitness ==
    /\ ReturnedData
    /\ \E i \in 1..Len(result.key_metrics) : result.key_metrics[i].name = Str.REVENUE
    /\ DictHas(result.income_statement, "revenue")
    /\ DictHas(result.income_statement, "line_items")

\* C9: a table that is the table of a chunk and also a table of the full markdown
\* is returned once: no entry of the markdown pass has the header and the rows of
\* an entry of the chunk pass.
CrossPassDeduplication ==
    ReturnedData =>
        \A i, j \in 1..Len(result.tables) :
            (result.tables[i].type # Str.markdown_table
                /\ result.tables[j].type = Str.markdown_table)
            => ~(/\ result.tables[i].header = result.tables[j].header
                 /\ result.tables[i].rows = result.tables[j].rows)

\* The response whose only chunk is the table that is also its full markdown is
\* returned with two entries for that table.
CrossPassDuplicate ==
    /\ ReturnedData
    /\ Chunks = <<ChunkAssets>>
    /\ ade_response.markdown = Field(AssetsMarkup)
    /\ Len(result.tables) = 2
    /\ result.tables[1].id = Str.c1
    /\ result.tables[2].id = Str.full_markdown_table_0
    /\ result.tables[1].rows = result.tables[2].rows

\* the chunk processes without an exception and a table is parsed from it
HealthyTableChunk(chunk) ==
    /\ chunk.type.kind # "null"
    /\ chunk.grounding.kind # "null"
    /\ chunk.id.kind = "value"
    /\ ChunkPass(InitialData, {}, chunk, RawChunkText(chunk), safely_get_text(chunk)).fd.tables
           # <<>>

\* C10: an exception in the processing of one chunk skips that chunk only: the
\* record returned still has the table of every chunk that processes without one.
ChunkFaultIsolation ==
    (pc = "done" /\ ade_response.metadata.kind # "null") =>
        \A k \in 1..Len(Chunks) :
            HealthyTableChunk(Chunks[k]) =>
                /\ "tables" \in DOMAIN result
                /\ \E t \in 1..Len(result.tables) : result.tables[t].id = Chunks[k].id.value

\* A table chunk followed by a chunk whose type is null: the error record, which
\* has no tables and no metrics, is returned.
ChunkFaultFatal ==
    /\ pc = "done"
    /\ Chunks = <<ChunkAssets, ChunkNullType>>
    /\ "tables" \notin DOMAIN result
    /\ result.key_metrics = <<>>
    /\ result.metadata.company_name = Str.Error_Mapping_Schema

\* C11: when the call fails at its outer boundary, the record returned by the
\* exception handler has the default metadata, an empty tables sequence, an empty
\* key_metrics sequence, the three statement buckets and a summary string.
TopLevelFailureRecord ==
    [][pc = "except" =>
          /\ result'.metadata = InitialData.metadata
          /\ "tables" \in DOMAIN result' /\ result'.tables = <<>>
          /\ result'.key_metrics = <<>>
          /\ {"income_statement", "balance_sheet", "cash_flow"} \subseteq DOMAIN result'
          /\ "summary" \in DOMAIN result' /\ result'.summary # <<>>]_vars

\* The response whose metadata is null: the handler returned a record with the
\* metadata of an error and without a tables field.
FailureRecordReturned ==
    /\ pc = "done"
    /\ ade_response.metadata = Null
    /\ result.metadata.company_name = Str.Error_Mapping_Schema
    /\ result.metadata.document_type = Str.Unknown
    /\ "tables" \notin DOMAIN result
    /\ "summary" \in DOMAIN result

\* the response has the one chunk c and no full markdown
OnlyChunk(c) == Chunks = <<c>> /\ ~Truthy(ade_response.markdown)

\* C12: a chunk whose markup is a table with the th cells Item and Amount and the
\* data row "Total Assets", "1,000,000" gives exactly one table entry with header
\* [Item, Amount] and one row, the metric Total Assets = 1000000 and
\* balance_sheet.total_assets = 1000000.
HeaderRowTable ==
    (pc = "done" /\ ade_response.metadata # Null
        /\ (OnlyChunk(ChunkAssets) \/ OnlyChunk(ChunkAssetsText))) =>
        /\ "tables" \in DOMAIN result
        /\ Len(result.tables) = 1
        /\ result.tables[1].header = <<Str.Item, Str.Amount>>
        /\ Len(result.tables[1].rows) = 1
        /\ \E i \in 1..Len(result.key_metrics) :
               /\ result.key_metrics[i].name = Str.Total_Assets
               /\ result.key_metrics[i].value = 1000000
        /\ DictGet(result.balance_sheet, "total_assets", 0) = 1000000

\* The call on that chunk alone returned, with the row under its header names.
HeaderRowTableWitness ==
    /\ ReturnedData
    /\ OnlyChunk(ChunkAssetsText)
    /\ result.tables[1].rows =
           <<<<<<Str.Item, Str.Total_Assets>>, <<Str.Amount,
                                                 <<"1", ",", "0", "0", "0", ",", "0", "0",
                                                   "0">>>>>>>>
    /\ result.tables[1].id = Str.table_0

\* no chunk of the response and no table element of its full markdown parses to a
\* header or a row
NoTableSource ==
    /\ \A k \in 1..Len(Chunks) :
           LET c == Chunks[k]
           IN  (c.type # Null /\ looks_like_table(c, RawChunkText(c))) =>
                   LET parsed == parse_table_rows(RawChunkText(c), safely_get_text(c))
                   IN  parsed.header = <<>> /\ parsed.rows = <<>>
    /\ MarkdownPass([fd |-> InitialData, ids |-> {}], ade_response.markdown).fd.tables = <<>>

\* every metric the fallback finds in the text of the document is in key_metrics
FallbackMetricsPresent ==
    \A k \in 1..Len(FallbackMetrics) :
        LET n == extract_metric(pdf_text, FallbackMetrics[k].keywords)
        IN  n # None =>
                \E i \in 1..Len(result.key_metrics) :
                    /\ result.key_metrics[i].name = FallbackMetrics[k].name
                    /\ result.key_metrics[i].value = n[1]

MetadataResolvedOnce ==
    [][\A f \in {"company_name", "document_date", "document_type"} :
           financial_data.metadata[f] # InitialData.metadata[f]
               => financial_data'.metadata[f] = financial_data.metadata[f]]_vars

\* Two chunks that each name a company, and a document type given by the response
\* with a text of the document that names another: the first values are returned.
MetadataResolvedWitness ==
    /\ ReturnedData
    /\ Chunks = <<ChunkRevenue, ChunkCompany>>
    /\ ade_response.metadata # Missing
    /\ pdf_text # <<>>
    /\ result.metadata.company_name = Str.Acme_Ltd
    /\ result.metadata.document_type = Str.Report
    /\ result.metadata.document_date = Str.Quarter_ended_March

UniqueTableIds(tables) ==
    \A i, j \in 1..Len(tables) : i # j => tables[i].id # tables[j].id

\* the table entry e was built from the chunk c: it carries the id of c, or it is an
\* entry of the full markdown with the header and the rows of the table of c
Represents(e, c, parsed) ==
    /\ ChunkId(c) # <<>>
    /\ \/ e.id = ChunkId(c)
       \/ /\ e.type = Str.markdown_table
          /\ c.type # Null /\ looks_like_table(c, RawChunkText(c))
          /\ parsed.header # <<>> \/ parsed.rows # <<>>
          /\ e.header = parsed.header /\ e.rows = parsed.rows

EntriesOf(tables, c) ==
    {i \in 1..Len(tables) :
        Represents(tables[i], c, parse_table_rows(RawChunkText(c), safely_get_text(c)))}

\* C15: in every record returned no two table entries have the same id, and no chunk
\* is represented by more than one table entry, for chunks with ids, without ids and
\* with repeated ids, followed by the tables of the full markdown.
TableIdentityUniqueness ==
    ReturnedData =>
        /\ UniqueTableIds(result.tables)
        /\ \A k \in 1..Len(Chunks) : Cardinality(EntriesOf(result.tables, Chunks[k])) <= 1

\* The ids alone are pairwise distinct in every state of a run, and the chunk pass
\* adds at most one entry per chunk.
TableIdsDistinct ==
    /\ UniqueTableIds(financial_data.tables)
    /\ pc = "chunk_pass" => Len(financial_data.tables) <= chunk_index - 1
    /\ pc = "full_markdown" => Len(financial_data.tables) <= Len(Chunks)
    /\ ReturnedData => UniqueTableIds(result.tables)

\* A chunk given twice under the same id, followed by two tables of the full
\* markdown: the repeated id gives one entry, and the first table of the markdown
\* gives a second entry for the table of the chunk.
TableIdentityDuplicate ==
    /\ ReturnedData
    /\ Chunks = <<ChunkAssets, ChunkAssets>>
    /\ ade_response.markdown = Field(TwoTablesMarkup)
    /\ [i \in 1..Len(result.tables) |-> result.tables[i].id]
           = <<Str.c1, Str.full_markdown_table_0, Str.full_markdown_table_1>>
    /\ EntriesOf(result.tables, ChunkAssets) = {1, 2}

(***************************************************************************)
(* Specification SpecThreads: two calls of map_to_financial_schema for     *)
(* different documents, run by two threads whose steps interleave.  Every  *)
(* variable of the mapper holds one value per thread: the function keeps   *)
(* its state in locals and in the record it allocates at lines 927-938.    *)
(***************************************************************************)
Threads == {1, 2}

\* the locals of one call as one record
Locals(p, response, txt, fd, ids, idx, res) ==
    [pc |-> p, ade_response |-> response, pdf_text |-> txt, financial_data |-> fd,
     processed_table_ids |-> ids, chunk_index |-> idx, result |-> res]

\* the locals at the entry of a call
Call(response, txt) == Locals("init", response, txt, InitialData, {}, 0, <<>>)

\* the chunk loop moves to the next chunk, or the call to the following pass
LoopNext(run, pass, following) ==
    IF run.chunk_index < Len(run.ade_response.chunks.value)
    THEN [run EXCEPT !.pc = pass, !.chunk_index = @ + 1]
    ELSE [run EXCEPT !.pc = following, !.chunk_index = 1]

\* lines 941-959 on the locals of a call
ReadMetadataOf(run) ==
    IF run.ade_response.metadata.kind = "null" THEN [run EXCEPT !.pc = "except"]
    ELSE [run EXCEPT
             !.financial_data =
                 IF run.ade_response.metadata.kind = "value"
                 THEN MetadataFrom(@, run.ade_response.metadata.value)
                 ELSE @,
             !.chunk_index = 1,
             !.pc = IF run.ade_response.chunks.kind = "missing" THEN "fallback"
                    ELSE IF run.ade_response.chunks.kind = "null" THEN "except"
                    ELSE IF run.ade_response.chunks.value = <<>> THEN "full_markdown"
                    ELSE "metadata_scan"]

\* lines 962-986 on the locals of a call
ScanChunkOf(run, chunk_text) ==
    LoopNext([run EXCEPT
                 !.financial_data =
                     ScanMetadata(@, chunk_text,
                                  CompanyNameIn(chunk_text, SplitOn(chunk_text, "\n", 1)),
                                  DocumentDateIn(chunk_text, SplitOn(chunk_text, "\n", 1)))],
             "metadata_scan", "chunk_pass")

\* lines 994-1058 on the locals of a call
ProcessChunkOf(run, out) ==
    IF out.raised
    THEN [run EXCEPT !.financial_data = out.fd, !.processed_table_ids = out.ids,
                     !.pc = "except"]
    ELSE LoopNext([run EXCEPT !.financial_data = out.fd, !.processed_table_ids = out.ids],
                  "chunk_pass", "full_markdown")

\* lines 1062-1093 on the locals of a call
FullMarkdownOf(run, st) ==
    [run EXCEPT !.financial_data = st.fd, !.processed_table_ids = st.ids,
                !.pc = "fallback"]

\* lines 1137-1156 on the locals of a call
ReturnOf(run, fd) == [run EXCEPT !.financial_data = fd, !.result = fd, !.pc = "done"]

\* one step of a call: the statement block at its program counter
MapperStep(run) ==
    CASE run.pc = "init" -> ReadMetadataOf(run)
      [] run.pc = "metadata_scan" ->
            ScanChunkOf(run, safely_get_text(run.ade_response.chunks.value[run.chunk_index]))
      [] run.pc = "chunk_pass" ->
            ProcessChunkOf(run,
                ChunkPass(run.financial_data, run.processed_table_ids,
                          run.ade_response.chunks.value[run.chunk_index],
                          RawChunkText(run.ade_response.chunks.value[run.chunk_index]),
                          safely_get_text(run.ade_response.chunks.value[run.chunk_index])))
      [] run.pc = "full_markdown" ->
            FullMarkdownOf(run,
                MarkdownPass([fd |-> run.financial_data, ids |-> run.processed_table_ids],
                             run.ade_response.markdown))
      [] run.pc = "fallback" ->
            [run EXCEPT
                !.financial_data =
                    IF @.income_statement = <<>> /\ @.balance_sheet = <<>>
                    THEN FallbackFrom(@, run.pdf_text, 1)
                    ELSE @,
                !.pc = "fee_amount"]
      [] run.pc = "fee_amount" ->
            [run EXCEPT
                !.financial_data =
                    FeeMetric(@, extract_metric(run.pdf_text,
                                                <<Str.fee, Str.total_fee, Str.amount,
                                                  Str.total_amount, Str.payment>>)),
                !.pc = "document_type"]
      [] run.pc = "document_type" ->
            ReturnOf(run,
                     IF /\ run.financial_data.metadata.document_type = Str.Document
                        /\ DocumentTypeOf(Lower(run.pdf_text)) # None
                     THEN [run.financial_data EXCEPT
                              !.metadata.document_type =
                                  DocumentTypeOf(Lower(run.pdf_text))[1]]
                     ELSE run.financial_data)
      [] run.pc = "except" -> [run EXCEPT !.result = ErrorData, !.pc = "done"]
      [] OTHER -> run

\* a call run from its locals to its return without any other call
RECURSIVE RunAlone(_)
RunAlone(run) == IF run.pc = "done" THEN run.result ELSE RunAlone(MapperStep(run))

\* lines 917-1174: the record that one call returns
map_to_financial_schema(response, txt) == RunAlone(Call(response, txt))

\* the locals of thread t see the set of processed ids of every thread
ThreadLocalsSharedIds(t) ==
    Locals(pc[t], ade_response[t], pdf_text[t], financial_data[t],
           UNION {processed_table_ids[u] : u \in Threads}, chunk_index[t], result[t])

\* the locals of the call that thread t runs
ThreadLocals(t) ==
    Locals(pc[t], ade_response[t], pdf_text[t], financial_data[t],
           processed_table_ids[t], chunk_index[t], result[t])

\* the documents of the threads: a table chunk with the same table as full markdown,
\* two text chunks, a chunk that raises, and a response without chunks
ThreadResponses ==
    {[metadata |-> Missing, chunks |-> Field(<<ChunkAssets>>),
      markdown |-> Field(AssetsMarkup)],
     [metadata |-> Field(<<<<"company_name", Str.Acme_Ltd>>>>),
      chunks |-> Field(<<ChunkAssets, ChunkCompany>>), markdown |-> Missing],
     [metadata |-> Missing, chunks |-> Field(<<ChunkRevenue, ChunkNullType>>),
      markdown |-> Missing],
     [metadata |-> Missing, chunks |-> Missing, markdown |-> Field(AssetsMarkup)]}

Documents == {[ade_response |-> r, pdf_text |-> p] : r \in ThreadResponses, p \in PdfTexts}

InitThreads ==
    /\ \E docs \in [Threads -> Documents] :
           /\ docs[1] # docs[2]
           /\ ade_response = [t \in Threads |-> docs[t].ade_response]
           /\ pdf_text = [t \in Threads |-> docs[t].pdf_text]
    /\ pc = [t \in Threads |-> "init"]
    /\ financial_data = [t \in Threads |-> InitialData]
    /\ processed_table_ids = [t \in Threads |-> {}]
    /\ chunk_index = [t \in Threads |-> 0]
    /\ result = [t \in Threads |-> <<>>]
    /\ NormIdle
    /\ NumIdle
    /\ TaskIdle
    /\ ParseIdle

Stepped(t, run) ==
    /\ pc' = [pc EXCEPT ![t] = run.pc]
    /\ financial_data' = [financial_data EXCEPT ![t] = run.financial_data]
    /\ processed_table_ids' = [processed_table_ids EXCEPT ![t] = run.processed_table_ids]
    /\ chunk_index' = [chunk_index EXCEPT ![t] = run.chunk_index]
    /\ result' = [result EXCEPT ![t] = run.result]

\* thread t runs the next statement block of its call
ThreadStep(t) ==
    /\ pc[t] # "done"
    /\ Stepped(t, MapperStep(ThreadLocals(t)))
    /\ UNCHANGED <<ade_response, pdf_text>>
    /\ UNCHANGED <<normVars, numVars, parseVars, taskVars>>

NextThreads == \E t \in Threads : ThreadStep(t)

SpecThreads == InitThreads /\ [][NextThreads]_vars

StepAgreement ==
    [][MapperStep(Locals(pc, ade_response, pdf_text, financial_data, processed_table_ids,
                         chunk_index, result))
       = Locals(pc', ade_response', pdf_text', financial_data', processed_table_ids',
                chunk_index', result')]_vars

\* the statement section that the text of a chunk names, extracted into the record fd
StatementOfChunk(fd, chunk) ==
    StatementOf(fd, safely_get_text(chunk), Lower(safely_get_text(chunk)))

\* C17: the statement-section check of the chunk pass covers every chunk with text,
\* table-like or not: when the lines of a chunk give a total of assets to the balance
\* sheet extraction, the record returned has balance_sheet.total_assets.
StatementCheckAllChunks ==
    ReturnedData =>
        \A k \in 1..Len(Chunks) :
            (/\ safely_get_text(Chunks[k]) # <<>>
             /\ DictHas(StatementOfChunk(InitialData, Chunks[k]).balance_sheet, "total_assets"))
            => DictHas(result.balance_sheet, "total_assets")

\* The plain text chunk "Balance Sheet / Total Assets 5,000" alone: the extraction
\* would give total_assets = 5000, and the record returned has an empty balance sheet.
StatementCheckSkipped ==
    /\ ReturnedData
    /\ Chunks = <<ChunkBalanceText>>
    /\ ~looks_like_table(ChunkBalanceText, RawChunkText(ChunkBalanceText))
    /\ DictGet(StatementOfChunk(InitialData, ChunkBalanceText).balance_sheet,
               "total_assets", 0) = 5000
    /\ result.balance_sheet = <<>>

\* the number of the right-most cell of the row that yields one
RightMostNumber(row) == FirstNumberIn(row, Reverse(DictKeys(row)))

\* C18: for every row of every table entry given to extract_metrics_from_table_entry
\* the value resolved is the number of the right-most cell that yields one, also
\* when the row has more cells than the header has columns.
RightToLeftResolution ==
    \A i \in 1..Len(financial_data.tables) :
        \A j \in 1..Len(financial_data.tables[i].rows) :
            first_numeric_value(financial_data.tables[i].rows[j],
                                financial_data.tables[i].header)
                = RightMostNumber(financial_data.tables[i].rows[j])

\* The table of the full markdown whose row has the cells Total Equity, 2,000 and
\* 3,000 under the header Item, Amount: the metric Total Equity is 2000, the number
\* of the middle cell.
MiddleCellResolved ==
    /\ ReturnedData
    /\ Chunks = <<>>
    /\ ade_response.markdown = Field(TwoTablesMarkup)
    /\ Len(result.tables) = 2
    /\ result.tables[2].header = <<Str.Item, Str.Amount>>
    /\ result.tables[2].rows
           = <<<<<<Str.Item, Str.Total_Equity>>, <<Str.Amount, "2,000">>,
                 <<Str.col_3, "3,000">>>>>>
    /\ RightMostNumber(result.tables[2].rows[1]) = Some(3000)
    /\ \E k \in 1..Len(result.key_metrics) :
           /\ result.key_metrics[k].name = Str.Total_Equity
           /\ result.key_metrics[k].value = 2000

\* the cells are there and each of them is made of dashes and colons only
DashesOnly(cells) ==
    /\ cells # <<>>
    /\ \A i \in 1..Len(cells) : cells[i] # <<>> /\ Range(cells[i]) \subseteq {"-", ":"}

\* C19: the pipe-delimited strategy discards every separator-only line, so that
\* neither the header nor a row it returns consists only of dashes and colons.
PipeSeparatorsDiscarded ==
    pc = "returned_pipe" =>
        /\ ~DashesOnly(header)
        /\ \A i \in 1..Len(rows) :
               ~DashesOnly([j \in 1..Len(rows[i]) |-> rows[i][j][2]])

\* The lines "Item | Amount", "---|---" and "Total | 1,000 | 2,000": the separator
\* line is returned as the first row.
SeparatorRowReturned ==
    /\ pc = "returned_pipe"
    /\ normalized_text = JoinLines(<<LineItemAmount, LineSeparator, LineTotalWide>>)
    /\ header = <<S_Item, S_Amount>>
    /\ Len(rows) = 2
    /\ rows[1] = <<<<S_Item, <<"-", "-", "-">>>>, <<S_Amount, <<"-", "-", "-">>>>>>

\* the table entries that the pass over the full markdown builds from the markdown alone
TablesOfMarkdown(markdown) ==
    MarkdownPass([fd |-> InitialData, ids |-> {}], markdown).fd.tables

\* C20: every table of the full markdown that reconstructs to a header or rows has
\* a table entry in the record returned, whatever the chunk list of the response is.
FullMarkupPass ==
    ReturnedData =>
        \A i \in 1..Len(TablesOfMarkdown(ade_response.markdown)) :
            \E j \in 1..Len(result.tables) :
                /\ result.tables[j].header = TablesOfMarkdown(ade_response.markdown)[i].header
                /\ result.tables[j].rows = TablesOfMarkdown(ade_response.markdown)[i].rows

\* The response without a chunks key whose markdown holds the table of total assets:
\* the record returned has no table entry.
FullMarkupPassSkipped ==
    /\ ReturnedData
    /\ ade_response.chunks = Missing
    /\ ade_response.markdown = Field(AssetsMarkup)
    /\ Len(TablesOfMarkdown(ade_response.markdown)) = 1
    /\ result.tables = <<>>

\* the number of columns that the cells from cell k on take when rendered: the sum of
\* their column spans
RECURSIVE RenderedWidth(_, _)
RenderedWidth(cell_elements, k) ==
    IF k > Len(cell_elements) THEN 0
    ELSE (IF cell_elements[k].colspan = None THEN 1
          ELSE IF ParseInt(cell_elements[k].colspan[1]) = None THEN 1
          ELSE ParseInt(cell_elements[k].colspan[1])[1])
         + RenderedWidth(cell_elements, k + 1)

\* every row of the table takes w columns when rendered
Rectangular(trs, w) ==
    /\ trs # <<>>
    /\ \A i \in 1..Len(trs) : RenderedWidth(trs[i].cells, 1) = w

\* the header and every row have w positions, each cell under the header of its column
PositionsMatch(hdr, rws, w) ==
    /\ Len(hdr) = w
    /\ \A i \in 1..Len(rws) :
           /\ Len(rws[i]) = w
           /\ \A j \in 1..w : rws[i][j][1] = hdr[j]

\* C21: in the structured-markup strategy a cell with colspan k takes k consecutive
\* positions of its row, in header rows and data rows alike: for a table whose rows
\* all render to the same number of columns, the header and every row returned have
\* that number of positions and every cell is stored under the header of its column.
ColumnSpanExpansion ==
    pc = "returned_html" =>
        \A w \in 1..4 :
            Rectangular(BeautifulSoup(raw_text).trs, w) => PositionsMatch(header, rows, w)

\* The table with the header cells Sub (colspan 2) and Total and the data row
\* Total Assets, 1,000, 2,000: the header has two positions for three columns, and
\* the cell 2,000 of the column Total is stored under col_3.
SpanHeaderNotExpanded ==
    /\ pc = "returned_html"
    /\ raw_text = PlainTable(<<RowSpanHeader, RowWide>>)
    /\ Rectangular(BeautifulSoup(raw_text).trs, 3)
    /\ header = <<<<"S", "u", "b">>, <<"T", "o", "t", "a", "l">>>>
    /\ Len(rows) = 1
    /\ rows[1][3] = <<S_col \o <<"3">>, S_2000>>

(***************************************************************************)
(* Specification FairSpec: a call of map_to_financial_schema runs on to    *)
(* its return; no step of it waits for anything.                           *)
(***************************************************************************)
FairSpec == Spec /\ WF_vars(Next)

\* the place of a program counter in the order of the passes
PhaseRank(p) ==
    CASE p = "init" -> 0
      [] p = "metadata_scan" -> 1
      [] p = "chunk_pass" -> 2
      [] p = "full_markdown" -> 3
      [] p = "fallback" -> 4
      [] p = "fee_amount" -> 5
      [] p = "document_type" -> 6
      [] p = "except" -> 7
      [] OTHER -> 8

\* the step enters the pass "to" from another program counter
Enters(to) == pc' = to /\ pc # to

\* the chunk loop of the pass "pass" is at its last chunk
LastChunkOf(pass) == pc = pass /\ chunk_index = Len(Chunks)

\* no pass is entered a second time or before the pass that precedes it is over
PhasesInOrder ==
    /\ PhaseRank(pc') >= PhaseRank(pc)
    /\ Enters("chunk_pass") => LastChunkOf("metadata_scan")
    /\ Enters("full_markdown") => (LastChunkOf("chunk_pass") \/ (pc = "init" /\ Chunks = <<>>))
    /\ Enters("fallback") => pc = "full_markdown"
    /\ Enters("document_type") => pc = "fee_amount"
    /\ Enters("done") => pc = "document_type"

\* C22: every run of map_to_financial_schema goes through the metadata scan, the
\* chunk pass, the full-markup pass, the fallback pass and the inference of the
\* document type in this order, each at most once and each only after the one
\* before it is over, and then reaches its return with the record.
MapperPhaseOrder ==
    /\ [][PhasesInOrder]_vars
    /\ (pc = "init") ~> (pc = "full_markdown")
    /\ (pc = "init") ~> ReturnedData

\* A response without a chunks key is at the fallback pass, and the pass over the
\* full markdown, which holds a table, was not run.
FallbackWithoutMarkupPass ==
    /\ pc = "fallback"
    /\ ade_response.chunks = Missing
    /\ ade_response.markdown = Field(AssetsMarkup)
    /\ financial_data.tables = <<>>
    /\ processed_table_ids = {}

\* C23: the fallback extraction from the text of the document runs only if
\* income_statement and balance_sheet are both empty after the chunk pass and the
\* full-markup pass; when one of them holds data, the fallback pass writes no bucket
\* value and adds no metric.
FallbackGating ==
    [][(/\ pc = "fallback"
        /\ financial_data.income_statement # <<>> \/ financial_data.balance_sheet # <<>>)
       => financial_data' = financial_data]_vars

\* After the fallback pass of a run whose balance sheet was filled by a table: the
\* text of the document has a line of net sales, and there is no metric Revenue.
FallbackGatedWitness ==
    /\ pc = "fee_amount"
    /\ financial_data.balance_sheet # <<>>
    /\ financial_data.income_statement = <<>>
    /\ extract_metric(pdf_text, <<Str.revenue, Str.net_sales, Str.total_revenue>>) = Some(9000)
    /\ \A k \in 1..Len(financial_data.key_metrics) :
           financial_data.key_metrics[k].name # Str.Revenue

(***************************************************************************)
(* Specification SpecClassify: extract_metrics_from_table_entry applied to *)
(* a table entry with the header Item, Amount                              *)
(***************************************************************************)
LabelWords == <<Str.Total, Str.Assets, Str.Liabilities, Str.Equity, Str.Cash_Flow, Str.Income>>

\* the words of LabelWords at the positions in picked, from word k on, joined by spaces
RECURSIVE LabelOf(_, _)
LabelOf(picked, k) ==
    IF k > Len(LabelWords) THEN <<>>
    ELSE IF k \in picked
         THEN LabelWords[k]
              \o (IF LabelOf(picked, k + 1) = <<>> THEN <<>>
                  ELSE <<" ">> \o LabelOf(picked, k + 1))
         ELSE LabelOf(picked, k + 1)

MetricLabels == {LabelOf(picked, 1) : picked \in SUBSET (1..Len(LabelWords))}

\* the rows of a table entry: a label under Item, and a number or no number under Amount
MetricRows ==
    {<<<<Str.Item, l>>, <<Str.Amount,
                          v>>>> : l \in MetricLabels, v \in {<<"1", ",", "0", "0", "0">>, Str.n_a}}

MaxMetricRows == 1

TableEntryOf(hdr, trows) ==
    [id |-> Str.table_0, title |-> <<>>, header |-> hdr, rows |-> trows,
     page |-> None, box |-> None, type |-> S_table]

InitClassify ==
    /\ pc = "classify_start"
    /\ header = <<Str.Item, Str.Amount>>
    /\ rows \in WordSeqs(MetricRows, MaxMetricRows)
    /\ financial_data = InitialData
    /\ raw_text = <<>>
    /\ normalized_text = <<>>
    /\ ade_response = <<>>
    /\ pdf_text = <<>>
    /\ processed_table_ids = {}
    /\ chunk_index = 0
    /\ result = <<>>
    /\ NormIdle
    /\ NumIdle
    /\ TaskIdle

\* lines 876-915: the metrics of the rows of the entry
ExtractMetrics ==
    /\ pc = "classify_start"
    /\ financial_data' =
           extract_metrics_from_table_entry(TableEntryOf(header, rows), financial_data)
    /\ pc' = "classified"
    /\ UNCHANGED <<header, rows, raw_text, normalized_text, ade_response, pdf_text,
                   processed_table_ids, chunk_index, result>>
    /\ UNCHANGED <<normVars, numVars, taskVars>>

NextClassify == ExtractMetrics

SpecClassify == InitClassify /\ [][NextClassify]_vars

\* the label of the row in lower case satisfies rule k of the classification
MatchesRule(k, l) ==
    CASE k = 1 -> Contains(l, Str.total) /\ Contains(l, Str.asset)
      [] k = 2 -> Contains(l, Str.total) /\ Contains(l, Str.liabil)
      [] k = 3 -> Contains(l, Str.total) /\ Contains(l, Str.equity)
      [] k = 4 -> Contains(l, Str.cash) /\ (Contains(l, Str.flow) \/ Contains(l, Str.operating))
      [] k = 5 -> Contains(l, Str.revenue) \/ Contains(l, Str.sales) \/ Contains(l, Str.income)
      [] OTHER -> TRUE

\* the first rule in the order of the classification that the label satisfies
FirstRule(l) == CHOOSE k \in 1..6 : MatchesRule(k, l) /\ \A j \in 1..(k - 1) : ~MatchesRule(j, l)

\* the row qualifies: a label, with a keyword of the important metrics, and a number
Qualifies(row) ==
    /\ clean_metric_label(RowLabel(row, header)) # <<>>
    /\ ContainsAny(Lower(clean_metric_label(RowLabel(row, header))), IMPORTANT_METRIC_KEYWORDS)
    /\ first_numeric_value(row, header) # None

\* the qualifying rows whose label is routed by rule k
RowsOfRule(k) ==
    {i \in 1..Len(rows) :
        Qualifies(rows[i]) /\ FirstRule(Lower(clean_metric_label(RowLabel(rows[i], header)))) = k}

\* the bucket key is set exactly when a row is routed by rule k
BucketOfRule(bucket, key, k) == DictHas(bucket, key) <=> RowsOfRule(k) # {}

\* C24: extract_metrics_from_table_entry routes a qualifying row by the first rule
\* that its label satisfies, in the order total+asset, total+liability, total+equity,
\* cash+(flow or operating), revenue/sales/income, else the generic metric only: only
\* the bucket of that rule is updated.
ClassificationOrder ==
    pc = "classified" =>
        /\ BucketOfRule(financial_data.balance_sheet, "total_assets", 1)
        /\ BucketOfRule(financial_data.balance_sheet, "total_liabilities", 2)
        /\ BucketOfRule(financial_data.balance_sheet, "total_equity", 3)
        /\ BucketOfRule(financial_data.cash_flow, "operating_cash_flow", 4)
        /\ BucketOfRule(financial_data.income_statement, "line_items", 5)
        /\ \A i \in RowsOfRule(5) :
               DictHas(DictGet(financial_data.income_statement, "line_items", <<>>),
                       clean_metric_label(RowLabel(rows[i], header)))
        /\ (financial_data.key_metrics # <<>>) <=> (\E k \in 1..6 : RowsOfRule(k) # {})

\* The row "Total Assets Liabilities Cash Flow Income", which satisfies four rules:
\* only balance_sheet.total_assets is set.
ClassificationWitness ==
    /\ pc = "classified"
    /\ rows = <<<<<<Str.Item, LabelOf({1, 2, 3, 5, 6}, 1)>>,
                  <<Str.Amount, <<"1", ",", "0", "0", "0">>>>>>>>
    /\ financial_data.balance_sheet = <<<<"total_assets", 1000>>>>
    /\ financial_data.cash_flow = <<>>
    /\ financial_data.income_statement = <<>>
    /\ Len(financial_data.key_metrics) = 1
    /\ financial_data.key_metrics[1].name = Str.Total_Assets

(***************************************************************************)
(* Specification SpecDocType: calls of map_to_financial_schema on texts    *)
(* that name any combination of document types                             *)
(***************************************************************************)
TypeWords ==
    <<Str.Invoice, Str.Payment, Str.Financial_Statement, Str.Balance_Sheet,
      Str.Income_Statement,
      Str.Cash_Flow, Str.Receipt, Str.Report>>

\* the words of TypeWords at the positions in picked, from word k on, one per line
RECURSIVE TextOf(_, _)
TextOf(picked, k) ==
    IF k > Len(TypeWords) THEN <<>>
    ELSE IF k \in picked
         THEN TypeWords[k]
              \o (IF TextOf(picked, k + 1) = <<>> THEN <<>>
                  ELSE <<"\n">> \o TextOf(picked, k + 1))
         ELSE TextOf(picked, k + 1)

TypeTexts == {TextOf(picked, 1) : picked \in SUBSET (1..Len(TypeWords))}

\* a response with one text chunk, one whose metadata name the document type, and
\* one whose metadata are null
TypeResponses ==
    {[metadata |-> Missing, chunks |-> Field(<<ChunkCompany>>), markdown |-> Missing],
     [metadata |-> Field(<<<<"document_type", Str.Report>>>>), chunks |-> Field(<<>>),
      markdown |-> Missing],
     [metadata |-> Null, chunks |-> Missing, markdown |-> Missing]}

InitDocType ==
    /\ pc = "init"
    /\ ade_response \in TypeResponses
    /\ pdf_text \in TypeTexts
    /\ financial_data = InitialData
    /\ processed_table_ids = {}
    /\ chunk_index = 0
    /\ result = <<>>
    /\ NormIdle
    /\ NumIdle
    /\ TaskIdle
    /\ ParseIdle

SpecDocType == InitDocType /\ [][Next]_vars

\* the text in lower case satisfies the k-th keyword check
MatchesType(k, l) ==
    CASE k = 1 -> Contains(l, Str.invoice)
      [] k = 2 -> Contains(l, Str.fee) \/ Contains(l, Str.payment)
      [] k = 3 -> Contains(l, Str.statement) /\ Contains(l, Str.financial)
      [] k = 4 -> Contains(l, Str.balance_sheet)
      [] k = 5 -> Contains(l, Str.income_statement) \/ Contains(l, Str.profit_and_loss)
      [] k = 6 -> Contains(l, Str.cash_flow)
      [] k = 7 -> Contains(l, Str.receipt)
      [] k = 8 -> Contains(l, Str.report)
      [] OTHER -> TRUE

TypeNames ==
    <<Str.Invoice, Str.Fee_Document, Str.Financial_Statement, Str.Balance_Sheet,
      Str.Income_Statement,
      Str.Cash_Flow_Statement, Str.Receipt, Str.Financial_Report, Str.Document>>

\* the type of the first keyword check, in the order of the checks, that the text
\* satisfies; the default when it satisfies none
FirstType(l) ==
    TypeNames[CHOOSE k \in 1..9 : MatchesType(k, l) /\ \A j \in 1..(k - 1) : ~MatchesType(j, l)]

\* C25: the document type is inferred at the end of the run and only when it still is
\* the default "Document": the type returned is then that of the first keyword check
\* which the text satisfies, in the order invoice, fee or payment, financial statement,
\* balance sheet, income statement, cash flow, receipt, report.
DocumentTypeInference ==
    [][pc = "document_type" =>
          result'.metadata.document_type =
              IF financial_data.metadata.document_type = Str.Document
              THEN FirstType(Lower(pdf_text))
              ELSE financial_data.metadata.document_type]_vars

\* A text that names a balance sheet, an income statement and a report: the type
\* returned is "Balance Sheet".
DocumentTypeWitness ==
    /\ ReturnedData
    /\ ade_response.metadata = Missing
    /\ pdf_text = TextOf({4, 5, 8}, 1)
    /\ result.metadata.document_type = Str.Balance_Sheet

(***************************************************************************)
(* Specification SpecTitle: infer_table_title applied to the text of a     *)
(* chunk                                                                   *)
(***************************************************************************)
LineQuarterly == Str.Quarterly_figures
LineInvoice == Str.Invoice_2024
LineReceipt == Str.Receipt

\* lines with and without a keyword of the titles, a header line and a separator line
\* of a pipe table, and a line that is a number only
TitleLines == {LineQuarterly, LineInvoice, LineReceipt, LineItemAmount, LineSeparator, S_1000}

InitTitle ==
    /\ pc = "title_start"
    /\ raw_text \in {JoinLines(q) : q \in WordSeqs(TitleLines, MaxLines)}
    /\ normalized_text = <<>>
    /\ header = <<>>
    /\ rows = <<>>
    /\ result = <<>>
    /\ ade_response = <<>>
    /\ pdf_text = <<>>
    /\ financial_data = <<>>
    /\ processed_table_ids = {}
    /\ chunk_index = 0
    /\ NormIdle
    /\ NumIdle
    /\ TaskIdle

\* lines 836-873: the title of the text
InferTitle ==
    /\ pc = "title_start"
    /\ result' = infer_table_title(raw_text)
    /\ pc' = "titled"
    /\ UNCHANGED <<raw_text, normalized_text, header, rows, ade_response, pdf_text,
                   financial_data, processed_table_ids, chunk_index>>
    /\ UNCHANGED <<normVars, numVars, taskVars>>

NextTitle == InferTitle

SpecTitle == InitTitle /\ [][NextTitle]_vars

\* the lines that infer_table_title scans for a title
ScannedLines(raw) ==
    [i \in 1..Min(Len(SplitOn(normalize_chunk_text(raw), "\n", 1)), 10) |->
        Strip(SplitOn(normalize_chunk_text(raw), "\n", 1)[i])]

\* the scanned lines that hold a title keyword and give a title
KeywordLines(lines) ==
    {i \in 1..Len(lines) :
        ContainsAny(Lower(lines[i]), title_keywords) /\ TitleOfLine(lines[i]) # None}

\* C26: when a scanned line of the text holds a title keyword, infer_table_title
\* returns the title of such a line, also when a usable line without keyword comes
\* before it; when no scanned line holds one, it returns the first usable line that
\* is not a table line, or "Table".
TitleKeywordPreference ==
    pc = "titled" =>
        IF KeywordLines(ScannedLines(raw_text)) # {}
        THEN \E i \in KeywordLines(ScannedLines(raw_text)) :
                 result = TitleOfLine(ScannedLines(raw_text)[i])[1]
        ELSE result = TitleFrom(SplitOn(normalize_chunk_text(raw_text), "\n", 1), None)

\* The text "Quarterly figures", "Invoice 2024": the title is the first line, which
\* has no keyword, and not "2024", the title of the invoice line.
TitleOfFirstLine ==
    /\ pc = "titled"
    /\ raw_text = JoinLines(<<LineQuarterly, LineInvoice>>)
    /\ KeywordLines(ScannedLines(raw_text)) = {2}
    /\ TitleOfLine(LineInvoice) = Some(<<"2", "0", "2", "4">>)
    /\ result = LineQuarterly

\* the value of the metric of that name, None when there is none
MetricValue(metrics, name) ==
    FirstSome([i \in 1..Len(metrics) |->
                  IF metrics[i].name = name THEN Some(metrics[i].value) ELSE None], 1)

\* the metric of that name, if there is one, has the value under the key of the bucket,
\* if that is set
Agree(metrics, name, bucket, key) ==
    (MetricValue(metrics, name) # None /\ DictHas(bucket, key))
        => MetricValue(metrics, name)[1] = DictGet(bucket, key, 0)

\* C27: in the record that a run returns, the metrics Total Assets, Total Liabilities,
\* Total Equity and Operating Cash Flow have the values of balance_sheet.total_assets,
\* total_liabilities, total_equity and cash_flow.operating_cash_flow, whenever both
\* the metric and the bucket value are there.
BucketMetricAgreement ==
    ReturnedData =>
        /\ Agree(result.key_metrics, Str.Total_Assets, result.balance_sheet, "total_assets")
        /\ Agree(result.key_metrics, Str.Total_Liabilities, result.balance_sheet,
                 "total_liabilities")
        /\ Agree(result.key_metrics, Str.Total_Equity, result.balance_sheet, "total_equity")
        /\ Agree(result.key_metrics, Str.Operating_Cash_Flow, result.cash_flow,
                 "operating_cash_flow")

\* The table chunk with the row Total Assets 1,000,000 followed by the chunk whose
\* text has the line Total Assets 5,000: the bucket holds 5000, the metric 1000000.
BucketMetricDisagree ==
    /\ ReturnedData
    /\ Chunks = <<ChunkAssets, ChunkBadSpan>>
    /\ DictGet(result.balance_sheet, "total_assets", 0) = 5000
    /\ MetricValue(result.key_metrics, Str.Total_Assets) = Some(1000000)

(***************************************************************************)
(* Specification SpecColumns: calls of map_to_financial_schema on table    *)
(* chunks whose text is laid out in columns                                *)
(***************************************************************************)
ColumnsText == <<"I", "t", "e", "m", " ", " ", "A", "m", "o", "u", "n", "t", "\n", "T", "o",
                 "t", "a", "l", " ", "A", "s", "s", "e", "t", "s", " ", " ", "1", ",", "0", "0",
                 "0">>

\* a table chunk whose columns are separated by two spaces
ChunkSpaces == Chunk(Field(ColumnsText), Missing, Field(Str.table), Field(Str.c7), Missing)

\* a table chunk whose columns are separated by two em spaces
ChunkEmSpaces ==
    Chunk(Field(JoinLines(<<LineEmItem, LineEmTotal>>)), Missing, Field(Str.table),
          Field(Str.c8),
          Missing)

ColumnChunks == {ChunkSpaces, ChunkEmSpaces, ChunkAssets, ChunkNullType}

InitColumns ==
    /\ pc = "init"
    /\ \E q \in SeqsUpTo(ColumnChunks, MaxChunks) :
           ade_response = [metadata |-> Missing, chunks |-> Field(q), markdown |-> Missing]
    /\ pdf_text \in PdfTexts
    /\ financial_data = InitialData
    /\ processed_table_ids = {}
    /\ chunk_index = 0
    /\ result = <<>>
    /\ NormIdle
    /\ NumIdle
    /\ TaskIdle
    /\ ParseIdle

SpecColumns == InitColumns /\ [][Next]_vars

\* what the whitespace-column strategy makes of the lines of the raw text of the chunk
ColumnsOf(chunk) == WhitespaceStrategy(NormalizedLines(RawChunkText(chunk)), <<>>)

\* a chunk of type table without table tag and without pipe
PlainTableChunk(chunk) ==
    /\ ChunkType(chunk) = S_table
    /\ ~Contains(Lower(RawChunkText(chunk)), S_tableTag)
    /\ ~Contains(RawChunkText(chunk), <<"|">>)

\* C28: a chunk of type table whose text is laid out in columns separated by runs of
\* two or more spaces, without table tag and pipe, yields a table entry whose header
\* is the first line of at least two segments and whose rows are the later such lines.
WhitespaceColumnChunk ==
    ReturnedData =>
        \A k \in 1..Len(Chunks) :
            (PlainTableChunk(Chunks[k]) /\ ColumnsOf(Chunks[k]).rows # <<>>)
            => \E t \in 1..Len(result.tables) :
                   /\ result.tables[t].id = ChunkId(Chunks[k])
                   /\ result.tables[t].header = ColumnsOf(Chunks[k]).header
                   /\ result.tables[t].rows = ColumnsOf(Chunks[k]).rows

\* The chunk "Item  Amount", "Total Assets  1,000" alone: its lines have two segments
\* each, the text handed to parse_table_rows has single spaces, and no table entry
\* is returned.
ColumnRunsCollapsed ==
    /\ ReturnedData
    /\ Chunks = <<ChunkSpaces>>
    /\ ColumnsOf(ChunkSpaces).header = <<Str.Item, Str.Amount>>
    /\ Len(ColumnsOf(ChunkSpaces).rows) = 1
    /\ safely_get_text(ChunkSpaces) = <<"I", "t", "e", "m", " ", "A", "m", "o", "u", "n", "t",
                                        "\n", "T", "o", "t", "a", "l", " ", "A", "s", "s", "e",
                                        "t", "s", " ", "1", ",", "0", "0", "0">>
    /\ result.tables = <<>>

(***************************************************************************)
(* Specification SpecTask: one run of process_document_background          *)
(* (src/app.py) for a document that the upload request left in the         *)
(* database with status "uploaded".  Every call to the database and to the *)
(* storage can fail.                                                       *)
(***************************************************************************)
\* lines 199-211: the record that process_document returns after an exception
ProcessingErrorRecord ==
    [metadata |-> [company_name |-> Str.Error_Processing_Document,
                   document_date |-> Str.Unknown,
                   document_type |-> Str.Unknown],
     income_statement |-> <<>>, balance_sheet |-> <<>>, cash_flow |-> <<>>,
     key_metrics |-> <<>>, summary |-> Str.Error_processing_document]

\* lines 122-211: the record of the mapper (the fields that lines 164-190 add to it
\* are not read by the task), or the error record when a step of it raised
process_document(response, txt, raised) ==
    IF raised THEN ProcessingErrorRecord ELSE map_to_financial_schema(response, txt)

\* the ways a call to the database ends: the row is updated; no row is updated and
\* update_document returns None; _get_client raises
DatabaseOutcomes == {"updated", "unchanged", "raised"}

\* update_processing_status (src/database_service.py): the row after the call
update_processing_status(row, status, progress, message, outcome) ==
    IF outcome = "updated"
    THEN [row EXCEPT !.status = status, !.progress = progress, !.status_message = message]
    ELSE row

\* update_processed_data (src/database_service.py): the row after the call
update_processed_data(row, path, processed_data, outcome) ==
    IF outcome = "updated"
    THEN [row EXCEPT !.processed_data_path = Some(path), !.status = Str.complete,
                     !.metadata = processed_data.metadata]
    ELSE row

\* the row that the upload request creates
UploadedDocument ==
    [status |-> Str.uploaded, progress |-> 0,
     status_message |-> <<"D", "o", "c", "u", "m", "e", "n", "t", " ", "u", "p", "l", "o", "a",
                          "d", "e", "d", ",", " ", "s", "t", "a", "r", "t", "i", "n", "g", " ",
                          "p", "r", "o", "c", "e", "s", "s", "i", "n", "g">>,
     processed_data_path |-> None, metadata |-> <<>>]

\* the responses of the parse service: a table chunk, and null metadata
TaskResponses ==
    {[metadata |-> Missing, chunks |-> Field(<<ChunkAssets>>), markdown |-> Missing],
     [metadata |-> Null, chunks |-> Field(<<ChunkAssets>>), markdown |-> Missing]}

InitTask ==
    /\ pc = "task_start"
    /\ document = UploadedDocument
    /\ processed_data_path = None
    /\ ade_response \in TaskResponses
    /\ pdf_text \in PdfTexts
    /\ financial_data = <<>>
    /\ processed_table_ids = {}
    /\ chunk_index = 0
    /\ result = <<>>
    /\ NormIdle
    /\ NumIdle
    /\ ParseIdle

\* a status update inside its own try block: a failure is printed and the run goes on
StatusStep(from, to, progress, message) ==
    /\ pc = from
    /\ \E outcome \in DatabaseOutcomes :
           document' = update_processing_status(document, Str.processing, progress, message,
                                                outcome)
    /\ pc' = to
    /\ UNCHANGED <<processed_data_path, ade_response, pdf_text, financial_data,
                   processed_table_ids, chunk_index, result>>
    /\ UNCHANGED <<normVars, numVars, parseVars>>

\* lines 384-396
StatusStarted == StatusStep("task_start", "task_calling", 10, Str.Started_document_processing)

\* lines 400-413
StatusCalling == StatusStep("task_calling", "task_process", 30,
                            Str.Calling_Landing_AI_ADE_API___)

\* line 416: process_document returns a record, also when a step of it raised
ProcessDocument ==
    /\ pc = "task_process"
    /\ \E raised \in BOOLEAN : result' = process_document(ade_response, pdf_text, raised)
    /\ pc' = "task_finalizing"
    /\ UNCHANGED <<document, processed_data_path, ade_response, pdf_text, financial_data,
                   processed_table_ids, chunk_index>>
    /\ UNCHANGED <<normVars, numVars, parseVars>>

\* lines 420-433
StatusFinalizing ==
    StatusStep("task_finalizing", "task_upload", 90, Str.Finalizing_document_data___)

\* lines 436-452: json.dumps, which raises into the handler of the task on a record
\* it cannot serialise, and the upload, whose failure leaves no path
UploadProcessedData ==
    /\ pc = "task_upload"
    /\ \E outcome \in {"uploaded", "failed", "dumps_raised"} :
           /\ processed_data_path' = IF outcome = "uploaded" THEN Some(Str.processed_json)
                                     ELSE None
           /\ pc' = IF outcome = "uploaded" THEN "task_update"
                    ELSE IF outcome = "failed" THEN "task_cleanup"
                    ELSE "task_failed"
    /\ UNCHANGED <<document, ade_response, pdf_text, financial_data, processed_table_ids,
                   chunk_index, result>>
    /\ UNCHANGED <<normVars, numVars, parseVars>>

\* lines 455-463: the row gets the path, the status "complete" and the metadata; an
\* exception skips the status update that follows
UpdateProcessedData ==
    /\ pc = "task_update"
    /\ \E outcome \in DatabaseOutcomes :
           /\ document' = update_processed_data(document, processed_data_path[1], result,
                                                outcome)
           /\ pc' = IF outcome = "raised" THEN "task_cleanup" ELSE "task_complete"
    /\ UNCHANGED <<processed_data_path, ade_response, pdf_text, financial_data,
                   processed_table_ids, chunk_index, result>>
    /\ UNCHANGED <<normVars, numVars, parseVars>>

\* lines 465-477: the status "complete"
StatusComplete ==
    /\ pc = "task_complete"
    /\ \E outcome \in DatabaseOutcomes :
           document' = update_processing_status(document, Str.complete, 100,
                                                Str.Document_processing_complete, outcome)
    /\ pc' = "task_cleanup"
    /\ UNCHANGED <<processed_data_path, ade_response, pdf_text, financial_data,
                   processed_table_ids, chunk_index, result>>
    /\ UNCHANGED <<normVars, numVars, parseVars>>

\* lines 480-484: the temporary file is deleted and the task ends
CleanUp ==
    /\ pc = "task_cleanup"
    /\ pc' = "task_done"
    /\ UNCHANGED <<document, processed_data_path, ade_response, pdf_text, financial_data,
                   processed_table_ids, chunk_index, result>>
    /\ UNCHANGED <<normVars, numVars, parseVars>>

\* lines 486-509: the handler of the task sets the status "error", without the access
\* token of the user, deletes the temporary file and ends the task
StatusError ==
    /\ pc = "task_failed"
    /\ \E outcome \in DatabaseOutcomes :
           document' = update_processing_status(document, Str.error, 0,
                                                Str.Error_processing_document, outcome)
    /\ pc' = "task_done"
    /\ UNCHANGED <<processed_data_path, ade_response, pdf_text, financial_data,
                   processed_table_ids, chunk_index, result>>
    /\ UNCHANGED <<normVars, numVars, parseVars>>

NextTask ==
    \/ StatusStarted
    \/ StatusCalling
    \/ ProcessDocument
    \/ StatusFinalizing
    \/ UploadProcessedData
    \/ UpdateProcessedData
    \/ StatusComplete
    \/ CleanUp
    \/ StatusError

SpecTask == InitTask /\ [][NextTask]_vars

\* the positions of the task
TaskPositions ==
    {"task_start", "task_calling", "task_process", "task_finalizing", "task_upload",
     "task_update", "task_complete", "task_cleanup", "task_failed", "task_done"}

\* The task moves on: the worker that runs the background task executes it one
\* statement after the other until the function returns.  Every step of NextTask moves
\* pc and is enabled exactly when pc is not "task_done", so weak fairness of TaskRuns
\* is weak fairness of NextTask.
TaskRuns == pc # "task_done" /\ pc' \in TaskPositions \ {pc}

FairTask == SpecTask /\ WF_pc(TaskRuns)

\* process_document hit an exception: it returned its error record
ProcessingFailed ==
    result # <<>> /\ result.metadata.company_name = Str.Error_Processing_Document

\* C29: when process_document hits an exception, the background task never sets the
\* status of the document to "complete", and it ends with the status "error": a
\* document with status "complete" is one whose processing produced a record without
\* failure.
FailedNotComplete ==
    ProcessingFailed =>
        /\ document.status # Str.complete
        /\ pc = "task_done" => document.status = Str.error

\* The run in which process_document raised, every call to the database succeeded,
\* and the task ended: the document has status "complete" and the metadata of the
\* error record.
FailedReportedComplete ==
    /\ pc = "task_done"
    /\ ProcessingFailed
    /\ document.status = Str.complete
    /\ document.progress = 100
    /\ document.metadata = ProcessingErrorRecord.metadata

\* C30: every run of process_document_background ends, and leaves the document with
\* status "complete" or "error", whatever step failed on the way.
TerminalStatus ==
    (pc = "task_start") ~> (pc = "task_done" /\ document.status \in {Str.complete, Str.error})

\* The run whose upload of the processed data failed ended: the document is left with
\* status "processing" at progress 90.
LeftProcessing ==
    /\ pc = "task_done"
    /\ processed_data_path = None
    /\ document.status = Str.processing
    /\ document.progress = 90

====
